---- MODULE Spec2Model ----
(***************************************************************************)
(* State-machine model of the Settings panel (src/unnamed/part_000): the   *)
(* parallel load of the six configuration slices, the form edits, Save,    *)
(* the uninstall modal and the manager self-update flow.                   *)
(*                                                                         *)
(* A nullable value (T | null) is modelled as a sequence: None == <<>> is  *)
(* null, Some(v) == <<v>> is the value v.  A pending setTimeout is a       *)
(* counter of scheduled callbacks.  An awaited backend call is a request   *)
(* in flight until the backend answers it; the handler resumes in the same *)
(* step that delivers the answer (promise continuations run before any     *)
(* other event is handled).                                                *)
(***************************************************************************)
EXTENDS Integers, Sequences, FiniteSets, TLC

\* ------------------------------------------------------------------ bounds
\* Largest contentLength a Started event reports.
MaxContentLength == 3
\* Largest chunkLength a Progress event reports.
MaxChunk == 2
\* Number of progress-callback events delivered during one download.
MaxEvents == 3
\* Number of user actions on the form (edits and clicks on "Save Settings")
\* in one mount of the panel.
MaxFormActions == 2
\* Number of uninstall_openclaw invocations in one mount of the panel.
MaxUninstalls == 2
\* Number of clicks on "Import Config".
MaxImports == 2
\* Number of user actions on the Agents panel in one mount.
MaxAgentActions == 3
\* Number of times the dashboard's interval fires.
MaxTicks == 2
\* Number of clicks on the dashboard's quick actions.
MaxDashActions == 2
\* Number of clicks on "Export Config".
MaxExports == 2

\* ------------------------------------------------------- program constants
\* parseInt(e.target.value) || 3000
DefaultPort == 3000
\* Math.min(100, ...) and setManagerDownloadProgress(100)
FullPercent == 100
\* contentLength = event.data.contentLength || 1
DefaultContentLength == 1

\* ----------------------------------------------------------- value helpers
None == <<>>
Some(v) == <<v>>

Min(a, b) == IF a <= b THEN a ELSE b

Slices == <<"browser", "web", "compaction", "workspace", "gateway", "subagent">>
SliceSet == {Slices[i] : i \in 1..Len(Slices)}

VARIABLES
    \* environment
    tauri,                  \* isTauri()
    hasEnvCallback,         \* the optional prop onEnvironmentChange is given
    store,                  \* the backend's persisted configuration
    ipc,                    \* config commands in flight, in issue order
    \* load / save status
    loading, saving, saveSuccess,
    loadPc,                 \* position of loadConfig
    loaded,                 \* results Promise.all has collected for the load
    appVersion,
    saveId,                 \* number of handleSave runs started
    saveTimers,             \* pending setTimeout(() => setSaveSuccess(false))
    saveAlert,              \* the error shown by the last alert() of handleSave
    saveAlerts,             \* number of alert() calls made by handleSave
    edits,                  \* number of form edits made
    \* config slices
    browser, webConfig, compaction, workspace, gateway, subagentDefaults,
    \* uninstall modal
    showUninstallConfirm, uninstalling, uninstallResult,
    uninstallCall,          \* uninstall_openclaw: not called, pending, or answered
    closeTimers,            \* pending setTimeout(() => setShowUninstallConfirm(false))
    envChanges,             \* number of onEnvironmentChange() calls
    uninstallCalls,         \* number of uninstall_openclaw invocations
    \* manager self-update
    managerChecking, managerUpdateAvailable, managerUpdateVersion,
    managerUpdateBody, managerDownloading, managerDownloadProgress,
    managerUpdateDone, managerUpdateError, managerUpdateObj, managerCheckDone,
    checkCall,              \* check() in flight
    downloadCall,           \* downloadAndInstall() in flight
    downloaded, contentLength,   \* locals of downloadManagerUpdate
    lastEvent,              \* the event the progress callback handled last
    startedSeen,            \* a Started event was handled in this download
    eventCount,             \* events delivered in this download
    \* config import
    importPrompts,          \* number of confirm() prompts handleImport has shown
    pickersOpen,            \* open() dialogs of this page awaiting the user
    importFlight,           \* import_config calls in flight
    importCalls,            \* number of import_config invocations
    importAlerts,           \* number of failure alerts handleImport has shown
    reloads,                \* number of window.location.reload() calls
    \* Agents panel (src/src/components/Agents/index.tsx); its loading and
    \* saving flags are agentsLoading and agentsSaving here
    agentsConfig,           \* the backend's agents and bindings
    agentCalls,             \* the panel's backend calls in flight, in issue order
    agentsPc,               \* "mount" until the useEffect has called fetchData
    agentsLoading, agents, bindings, error,
    showAgentDialog, editingAgent, showBindingDialog, agentsSaving,
    agentForm, bindingForm, peerType, peerId,
    agentActions,           \* number of user actions on the panel, closing a dialog aside
    confirmPrompts,         \* number of confirm() prompts the delete handlers have shown
    fetchFailed,            \* a get_agents_config call was rejected
    appliedData,            \* the response fetchData applied last, null before the first
    dialogOpens,            \* number of times a dialog of the panel was opened
    \* config export
    exportClicks,           \* number of clicks on "Export Config"
    exportPickers,          \* save() dialogs that are open
    exportFlight,           \* export_config calls in flight
    exportCalls,            \* number of export_config calls made
    exportAlerts,           \* number of alerts handleExport has raised
    \* dashboard
    dashPc,                 \* "mount" before the useEffect has run, then "mounted", "unmounted"
    statusInterval,         \* the setInterval(fetchStatus, 3000) timer is set
    dashCalls,              \* service calls of the dashboard in flight
    status, dashLoading, actionLoading,
    ticks,                  \* number of times the interval has fired
    dashActions,            \* number of clicks on the quick actions
    service                 \* the backend's service: "running" or "stopped"

envVars == <<tauri, hasEnvCallback>>
dashVars == <<dashPc, statusInterval, dashCalls, status, dashLoading, actionLoading,
              ticks, dashActions, service>>
exportVars == <<exportClicks, exportPickers, exportFlight, exportCalls, exportAlerts>>
loadVars == <<loading, loadPc, loaded, appVersion>>
sliceVars == <<browser, webConfig, compaction, workspace, gateway, subagentDefaults>>
saveVars == <<saving, saveSuccess, saveId, saveTimers, saveAlert, saveAlerts>>
uninstallVars == <<showUninstallConfirm, uninstalling, uninstallResult,
                   uninstallCall, closeTimers, envChanges, uninstallCalls>>
updateVars == <<managerChecking, managerUpdateAvailable, managerUpdateVersion,
                managerUpdateBody, managerDownloading, managerDownloadProgress,
                managerUpdateDone, managerUpdateError, managerUpdateObj,
                managerCheckDone, checkCall, downloadCall, downloaded,
                contentLength, lastEvent, startedSeen, eventCount>>
importVars == <<importPrompts, pickersOpen, importFlight, importCalls,
                importAlerts, reloads>>
agentVars == <<agentsConfig, agentCalls, agentsPc, agentsLoading, agents, bindings,
               error, showAgentDialog, editingAgent, showBindingDialog, agentsSaving,
               agentForm, bindingForm, peerType, peerId, agentActions,
               confirmPrompts, fetchFailed, appliedData, dialogOpens>>
vars == <<envVars, dashVars, exportVars, importVars, agentVars, store, ipc, loadVars,
          sliceVars, saveVars, edits, uninstallVars, updateVars>>

\* ------------------------------------------------------ backend contents
\* Two configurations the backend may hold when the panel mounts.
ConfigA ==
    [browser |-> [enabled |-> TRUE, color |-> None],
     web |-> [brave_api_key |-> None],
     compaction |-> [enabled |-> TRUE, threshold |-> Some(8000),
                     context_pruning |-> FALSE, max_context_messages |-> None],
     workspace |-> [workspace |-> None, timezone |-> None, time_format |-> None,
                    skip_bootstrap |-> FALSE, bootstrap_max_chars |-> None],
     gateway |-> [port |-> 8080, log_level |-> "info"],
     subagent |-> [max_spawn_depth |-> None, max_children_per_agent |-> None,
                   max_concurrent |-> None]]

ConfigB ==
    [browser |-> [enabled |-> FALSE, color |-> Some("#ff0000")],
     web |-> [brave_api_key |-> Some("BSA-1")],
     compaction |-> [enabled |-> FALSE, threshold |-> None,
                     context_pruning |-> TRUE, max_context_messages |-> Some(50)],
     workspace |-> [workspace |-> Some("/ws"), timezone |-> Some("UTC"),
                    time_format |-> Some("12h"), skip_bootstrap |-> TRUE,
                    bootstrap_max_chars |-> Some(2000)],
     gateway |-> [port |-> 9000, log_level |-> "debug"],
     subagent |-> [max_spawn_depth |-> Some(2), max_children_per_agent |-> Some(5),
                   max_concurrent |-> Some(0)]]

BackendConfigs == {ConfigA, ConfigB}

\* ------------------------------------------------------------ useState()
DefaultBrowser == [enabled |-> TRUE, color |-> None]
DefaultWebConfig == [brave_api_key |-> None]
DefaultCompaction == [enabled |-> FALSE, threshold |-> None,
                      context_pruning |-> FALSE, max_context_messages |-> None]
DefaultWorkspace == [workspace |-> None, timezone |-> None, time_format |-> None,
                     skip_bootstrap |-> FALSE, bootstrap_max_chars |-> None]
DefaultGateway == [port |-> DefaultPort, log_level |-> "info"]
DefaultSubagentDefaults == [max_spawn_depth |-> None, max_children_per_agent |-> None,
                            max_concurrent |-> None]

NoEvent == [event |-> "none"]

\* ------------------------------------------------- agents and bindings
\* useState<AgentInfo>({ id: '', workspace: null, ... })
EmptyAgentForm ==
    [id |-> "", workspace |-> None, agent_dir |-> None, model |-> None,
     sandbox |-> None]

\* useState<AgentBinding>({ agent_id: '', match_rule: { ... null } })
EmptyMatchRule == [channel |-> None, account_id |-> None, peer |-> None]
EmptyBindingForm == [agent_id |-> "", match_rule |-> EmptyMatchRule]

\* Two states of the backend's agent store when the panel mounts: nothing
\* configured, and two agents with one routing rule each.
NoAgentsConfig == [agents |-> <<>>, bindings |-> <<>>]

TwoAgentsConfig ==
    [agents |-> <<[EmptyAgentForm EXCEPT !.id = "a"],
                  [EmptyAgentForm EXCEPT !.id = "b", !.model = Some("m1"),
                                         !.sandbox = Some(TRUE)]>>,
     bindings |-> <<[agent_id |-> "a", match_rule |-> EmptyMatchRule],
                    [agent_id |-> "b",
                     match_rule |-> [EmptyMatchRule EXCEPT !.channel = Some("whatsapp")]]>>]

AgentsConfigs == {NoAgentsConfig, TwoAgentsConfig}

Init ==
    /\ tauri \in BOOLEAN
    /\ hasEnvCallback \in BOOLEAN
    /\ store \in BackendConfigs
    /\ ipc = <<>>
    /\ loading = TRUE
    /\ saving = FALSE
    /\ saveSuccess = FALSE
    /\ loadPc = "mount"
    /\ loaded = [s \in SliceSet |-> None]
    /\ appVersion = "..."
    /\ saveId = 0
    /\ saveTimers = 0
    /\ saveAlert = None
    /\ saveAlerts = 0
    /\ edits = 0
    /\ browser = DefaultBrowser
    /\ webConfig = DefaultWebConfig
    /\ compaction = DefaultCompaction
    /\ workspace = DefaultWorkspace
    /\ gateway = DefaultGateway
    /\ subagentDefaults = DefaultSubagentDefaults
    /\ showUninstallConfirm = FALSE
    /\ uninstalling = FALSE
    /\ uninstallResult = None
    /\ uninstallCall = [state |-> "none"]
    /\ closeTimers = 0
    /\ envChanges = 0
    /\ uninstallCalls = 0
    /\ managerChecking = FALSE
    /\ managerUpdateAvailable = FALSE
    /\ managerUpdateVersion = None
    /\ managerUpdateBody = None
    /\ managerDownloading = FALSE
    /\ managerDownloadProgress = 0
    /\ managerUpdateDone = FALSE
    /\ managerUpdateError = None
    /\ managerUpdateObj = None
    /\ managerCheckDone = FALSE
    /\ checkCall = "none"
    /\ downloadCall = "none"
    /\ downloaded = 0
    /\ contentLength = DefaultContentLength
    /\ lastEvent = NoEvent
    /\ startedSeen = FALSE
    /\ eventCount = 0
    /\ importPrompts = 0
    /\ pickersOpen = 0
    /\ importFlight = <<>>
    /\ importCalls = 0
    /\ importAlerts = 0
    /\ reloads = 0
    /\ agentsConfig \in AgentsConfigs
    /\ agentCalls = <<>>
    /\ agentsPc = "mount"
    /\ agentsLoading = TRUE
    /\ agents = <<>>
    /\ bindings = <<>>
    /\ error = None
    /\ showAgentDialog = FALSE
    /\ editingAgent = None
    /\ showBindingDialog = FALSE
    /\ agentsSaving = FALSE
    /\ agentForm = EmptyAgentForm
    /\ bindingForm = EmptyBindingForm
    /\ peerType = "any"
    /\ peerId = ""
    /\ agentActions = 0
    /\ confirmPrompts = 0
    /\ fetchFailed = FALSE
    /\ appliedData = None
    /\ dialogOpens = 0
    /\ exportClicks = 0
    /\ exportPickers = 0
    /\ exportFlight = <<>>
    /\ exportCalls = 0
    /\ exportAlerts = 0
    /\ dashPc = "mount"
    /\ statusInterval = FALSE
    /\ dashCalls = <<>>
    /\ status = None
    /\ dashLoading = TRUE
    /\ actionLoading = FALSE
    /\ ticks = 0
    /\ dashActions = 0
    /\ service \in {"running", "stopped"}

\* ------------------------------------------------------------------ load
GetRequest(s) == [cmd |-> "get", slice |-> s, args |-> None, call |-> 0]

\* useEffect(() => { loadConfig() }, []): setLoading(true) and the six
\* fetches of Promise.all, issued in the order written.
LoadConfig ==
    /\ loadPc = "mount"
    /\ loading' = TRUE
    /\ ipc' = ipc \o [i \in 1..Len(Slices) |-> GetRequest(Slices[i])]
    /\ loadPc' = "fetching"
    /\ UNCHANGED <<envVars, dashVars, exportVars,
                   importVars, agentVars, store, loaded, appVersion, sliceVars, saveVars, edits,
                   uninstallVars, updateVars>>

FetchResolvesFirstWins ==
    /\ ipc # <<>>
    /\ Head(ipc).cmd = "get"
    /\ loadPc = "fetching"
    /\ loaded' = [loaded EXCEPT ![Head(ipc).slice] = Some(store[Head(ipc).slice])]
    /\ ipc' = Tail(ipc)
    /\ loadPc' = "done"
    /\ loading' = FALSE
    /\ UNCHANGED <<envVars, dashVars, exportVars,
                   importVars, agentVars, store, appVersion, sliceVars, saveVars, edits,
                   uninstallVars, updateVars>>

\* A fetch resolves while Promise.all is pending.  When it is the last of
\* the six, loadConfig resumes: the six setters run, and then either the
\* version is awaited (isTauri) or the finally block ends the load.
FetchResolves ==
    /\ ipc # <<>>
    /\ Head(ipc).cmd = "get"
    /\ loadPc = "fetching"
    /\ LET s == Head(ipc).slice
           got == [loaded EXCEPT ![s] = Some(store[s])]
       IN /\ loaded' = got
          /\ ipc' = Tail(ipc)
          /\ IF \A t \in SliceSet : got[t] # None
             THEN /\ browser' = got["browser"][1]
                  /\ webConfig' = got["web"][1]
                  /\ compaction' = got["compaction"][1]
                  /\ workspace' = got["workspace"][1]
                  /\ gateway' = got["gateway"][1]
                  /\ subagentDefaults' = got["subagent"][1]
                  /\ IF tauri
                     THEN loadPc' = "version" /\ loading' = loading
                     ELSE loadPc' = "done" /\ loading' = FALSE
             ELSE UNCHANGED <<sliceVars, loadPc, loading>>
    /\ UNCHANGED <<envVars, dashVars, exportVars,
                   importVars, agentVars, store, appVersion, saveVars, edits, uninstallVars,
                   updateVars>>

FetchRejectsNoFinally ==
    /\ ipc # <<>>
    /\ Head(ipc).cmd = "get"
    /\ loadPc = "fetching"
    /\ ipc' = Tail(ipc)
    /\ loadPc' = "done"
    /\ UNCHANGED <<envVars, dashVars, exportVars,
                   importVars, agentVars, store, loading, loaded, appVersion, sliceVars, saveVars,
                   edits, uninstallVars, updateVars>>

\* A fetch rejects while Promise.all is pending: Promise.all rejects at
\* once, the catch block logs, the finally block ends the load.  The
\* fetches behind it stay in flight.
FetchRejects ==
    /\ ipc # <<>>
    /\ Head(ipc).cmd = "get"
    /\ loadPc = "fetching"
    /\ ipc' = Tail(ipc)
    /\ loadPc' = "done"
    /\ loading' = FALSE
    /\ UNCHANGED <<envVars, dashVars, exportVars,
                   importVars, agentVars, store, loaded, appVersion, sliceVars, saveVars, edits,
                   uninstallVars, updateVars>>

\* A fetch settles after Promise.all has rejected: nobody reads the result.
FetchSettlesUnobserved ==
    /\ ipc # <<>>
    /\ Head(ipc).cmd = "get"
    /\ loadPc # "fetching"
    /\ ipc' = Tail(ipc)
    /\ UNCHANGED <<envVars, dashVars, exportVars,
                   importVars, agentVars, store, loadVars, sliceVars, saveVars, edits,
                   uninstallVars, updateVars>>

\* setAppVersion(await getVersion()), then finally.
VersionResolves ==
    /\ loadPc = "version"
    /\ appVersion' = "1.0.0"
    /\ loadPc' = "done"
    /\ loading' = FALSE
    /\ UNCHANGED <<envVars, dashVars, exportVars,
                   importVars, agentVars, store, ipc, loaded, sliceVars, saveVars, edits,
                   uninstallVars, updateVars>>

\* import() or getVersion() rejects: catch logs, then finally.
VersionRejects ==
    /\ loadPc = "version"
    /\ loadPc' = "done"
    /\ loading' = FALSE
    /\ UNCHANGED <<envVars, dashVars, exportVars,
                   importVars, agentVars, store, ipc, loaded, appVersion, sliceVars, saveVars,
                   edits, uninstallVars, updateVars>>

Load ==
    \/ LoadConfig
    \/ FetchResolves
    \/ FetchRejects
    \/ FetchSettlesUnobserved
    \/ VersionResolves
    \/ VersionRejects

\* The form is rendered only when the spinner is not (if (loading) return).
PanelRendered == ~loading

\* ---------------------------------------------------- manager self-update
\* What check() resolves to when a newer version exists.
Updates == {[version |-> "2.0.0", body |-> Some("notes")],
            [version |-> "2.0.1", body |-> Some("")]}

\* e?.message || String(e)
UpdateErrors == {"network error"}

\* The events downloadAndInstall hands to the progress callback.  A Started
\* event may carry no contentLength (undefined).
StartedEvents == {[event |-> "Started", contentLength |-> c] :
                    c \in {None} \cup {Some(n) : n \in 0..MaxContentLength}}
ProgressEvents == {[event |-> "Progress", chunkLength |-> n] : n \in 0..MaxChunk}
FinishedEvents == {[event |-> "Finished"]}
DownloadEvents == StartedEvents \cup ProgressEvents \cup FinishedEvents

\* update.body || null
BodyOrNull(b) == IF b = None \/ b = Some("") THEN None ELSE b

\* event.data.contentLength || 1
ContentLengthOf(e) ==
    IF e.contentLength = None \/ e.contentLength = Some(0)
    THEN DefaultContentLength
    ELSE e.contentLength[1]

\* Math.round(n / c) for n >= 0, c > 0: halves round up.  Within the bounds
\* every quotient n / c that the code computes in floating point is either
\* exact or not within 1e-9 of a half, so the integer form agrees with it.
Round(n, c) == (2 * n + c) \div (2 * c)

PercentUnclamped(d, c) == Round(d * 100, c)

\* Math.min(100, Math.round((downloaded / contentLength) * 100))
Percent(d, c) == Min(FullPercent, Round(d * 100, c))

ProgressAfterNoFinished(e, d, c, p) ==
    CASE e.event = "Started" -> p
      [] e.event = "Progress" -> Percent(d + e.chunkLength, c)
      [] e.event = "Finished" -> p

\* The value of managerDownloadProgress after the callback handled event e
\* with locals downloaded = d, contentLength = c and the state at p.
ProgressAfter(e, d, c, p) ==
    CASE e.event = "Started" -> p
      [] e.event = "Progress" -> Percent(d + e.chunkLength, c)
      [] e.event = "Finished" -> FullPercent

CheckButtonAlwaysRendered == PanelRendered /\ ~managerChecking

\* {!managerUpdateAvailable && !managerUpdateDone && <button disabled={managerChecking}>}
CheckButtonEnabled ==
    PanelRendered /\ ~managerUpdateAvailable /\ ~managerUpdateDone /\ ~managerChecking

\* {managerUpdateAvailable && !managerUpdateDone && ... {!managerDownloading && <button>}}
DownloadButtonRendered ==
    PanelRendered /\ managerUpdateAvailable /\ ~managerUpdateDone /\ ~managerDownloading

\* checkManagerUpdate up to its await.  Outside Tauri it returns at once.
CheckManagerUpdate ==
    /\ CheckButtonEnabled
    /\ tauri
    /\ managerChecking' = TRUE
    /\ managerUpdateError' = None
    /\ managerUpdateAvailable' = FALSE
    /\ managerCheckDone' = FALSE
    /\ managerUpdateDone' = FALSE
    /\ checkCall' = "pending"
    /\ UNCHANGED <<managerUpdateVersion, managerUpdateBody, managerDownloading,
                   managerDownloadProgress, managerUpdateObj, downloadCall,
                   downloaded, contentLength, lastEvent, startedSeen, eventCount>>
    /\ UNCHANGED <<envVars, dashVars, exportVars,
                   importVars, agentVars, store, ipc, loadVars, sliceVars, saveVars, edits,
                   uninstallVars>>

\* check() resolves with an update or with null; then finally.
CheckResolves(update) ==
    /\ checkCall = "pending"
    /\ checkCall' = "none"
    /\ IF update # None
       THEN /\ managerUpdateAvailable' = TRUE
            /\ managerUpdateVersion' = Some(update[1].version)
            /\ managerUpdateBody' = BodyOrNull(update[1].body)
            /\ managerUpdateObj' = update
            /\ UNCHANGED managerCheckDone
       ELSE /\ managerCheckDone' = TRUE
            /\ UNCHANGED <<managerUpdateAvailable, managerUpdateVersion,
                           managerUpdateBody, managerUpdateObj>>
    /\ managerChecking' = FALSE
    /\ UNCHANGED <<managerDownloading, managerDownloadProgress, managerUpdateDone,
                   managerUpdateError, downloadCall, downloaded, contentLength,
                   lastEvent, startedSeen, eventCount>>
    /\ UNCHANGED <<envVars, dashVars, exportVars,
                   importVars, agentVars, store, ipc, loadVars, sliceVars, saveVars, edits,
                   uninstallVars>>

\* import() or check() throws: catch sets the error; then finally.
CheckRejects(err) ==
    /\ checkCall = "pending"
    /\ checkCall' = "none"
    /\ managerUpdateError' = Some(err)
    /\ managerChecking' = FALSE
    /\ UNCHANGED <<managerUpdateAvailable, managerUpdateVersion, managerUpdateBody,
                   managerDownloading, managerDownloadProgress, managerUpdateDone,
                   managerUpdateObj, managerCheckDone, downloadCall, downloaded,
                   contentLength, lastEvent, startedSeen, eventCount>>
    /\ UNCHANGED <<envVars, dashVars, exportVars,
                   importVars, agentVars, store, ipc, loadVars, sliceVars, saveVars, edits,
                   uninstallVars>>

\* downloadManagerUpdate up to its await: the three setters, and the locals
\* downloaded = 0 and contentLength = 1 of this run.
DownloadManagerUpdate ==
    /\ DownloadButtonRendered
    /\ managerUpdateObj # None
    /\ managerDownloading' = TRUE
    /\ managerDownloadProgress' = 0
    /\ managerUpdateError' = None
    /\ downloaded' = 0
    /\ contentLength' = DefaultContentLength
    /\ downloadCall' = "pending"
    /\ lastEvent' = NoEvent
    /\ startedSeen' = FALSE
    /\ eventCount' = 0
    /\ UNCHANGED <<managerChecking, managerUpdateAvailable, managerUpdateVersion,
                   managerUpdateBody, managerUpdateDone, managerUpdateObj,
                   managerCheckDone, checkCall>>
    /\ UNCHANGED <<envVars, dashVars, exportVars,
                   importVars, agentVars, store, ipc, loadVars, sliceVars, saveVars, edits,
                   uninstallVars>>

\* The progress callback handles one event.
OnDownloadEvent(e) ==
    /\ downloadCall = "pending"
    /\ eventCount < MaxEvents
    /\ eventCount' = eventCount + 1
    /\ lastEvent' = e
    /\ startedSeen' = (startedSeen \/ e.event = "Started")
    /\ contentLength' = IF e.event = "Started" THEN ContentLengthOf(e) ELSE contentLength
    /\ downloaded' = IF e.event = "Progress" THEN downloaded + e.chunkLength ELSE downloaded
    /\ managerDownloadProgress' =
           ProgressAfter(e, downloaded, contentLength, managerDownloadProgress)
    /\ UNCHANGED <<managerChecking, managerUpdateAvailable, managerUpdateVersion,
                   managerUpdateBody, managerDownloading, managerUpdateDone,
                   managerUpdateError, managerUpdateObj, managerCheckDone,
                   checkCall, downloadCall>>
    /\ UNCHANGED <<envVars, dashVars, exportVars,
                   importVars, agentVars, store, ipc, loadVars, sliceVars, saveVars, edits,
                   uninstallVars>>

DownloadResolvesNoFinally ==
    /\ downloadCall = "pending"
    /\ downloadCall' = "none"
    /\ managerUpdateDone' = TRUE
    /\ UNCHANGED <<managerChecking, managerUpdateAvailable, managerUpdateVersion,
                   managerUpdateBody, managerDownloading, managerDownloadProgress,
                   managerUpdateError, managerUpdateObj, managerCheckDone, checkCall,
                   downloaded, contentLength, lastEvent, startedSeen, eventCount>>
    /\ UNCHANGED <<envVars, dashVars, exportVars,
                   importVars, agentVars, store, ipc, loadVars, sliceVars, saveVars, edits,
                   uninstallVars>>

\* downloadAndInstall resolves: setManagerUpdateDone(true); then finally.
DownloadResolves ==
    /\ downloadCall = "pending"
    /\ downloadCall' = "none"
    /\ managerUpdateDone' = TRUE
    /\ managerDownloading' = FALSE
    /\ UNCHANGED <<managerChecking, managerUpdateAvailable, managerUpdateVersion,
                   managerUpdateBody, managerDownloadProgress, managerUpdateError,
                   managerUpdateObj, managerCheckDone, checkCall, downloaded,
                   contentLength, lastEvent, startedSeen, eventCount>>
    /\ UNCHANGED <<envVars, dashVars, exportVars,
                   importVars, agentVars, store, ipc, loadVars, sliceVars, saveVars, edits,
                   uninstallVars>>

\* downloadAndInstall throws: catch sets the error; then finally.
DownloadRejects(err) ==
    /\ downloadCall = "pending"
    /\ downloadCall' = "none"
    /\ managerUpdateError' = Some(err)
    /\ managerDownloading' = FALSE
    /\ UNCHANGED <<managerChecking, managerUpdateAvailable, managerUpdateVersion,
                   managerUpdateBody, managerDownloadProgress, managerUpdateDone,
                   managerUpdateObj, managerCheckDone, checkCall, downloaded,
                   contentLength, lastEvent, startedSeen, eventCount>>
    /\ UNCHANGED <<envVars, dashVars, exportVars,
                   importVars, agentVars, store, ipc, loadVars, sliceVars, saveVars, edits,
                   uninstallVars>>

DownloadEventStep == \E e \in DownloadEvents : OnDownloadEvent(e)

NextUpdate ==
    \/ Load
    \/ CheckManagerUpdate
    \/ \E u \in {None} \cup {Some(x) : x \in Updates} : CheckResolves(u)
    \/ \E err \in UpdateErrors : CheckRejects(err)
    \/ DownloadManagerUpdate
    \/ DownloadEventStep
    \/ DownloadResolves
    \/ \E err \in UpdateErrors : DownloadRejects(err)

\* The self-update flow, the load, the edits and Save do not read the
\* onEnvironmentChange prop, and the Settings panel does not read the agent
\* store: their specifications take both as given.
InitWithCallback ==
    Init /\ hasEnvCallback = TRUE /\ agentsConfig = TwoAgentsConfig /\ service = "running"

SpecUpdate == InitWithCallback /\ [][NextUpdate]_vars

\* C1: during one run of downloadManagerUpdate, managerDownloadProgress
\* never decreases from one callback event to the next, whatever the order
\* of the Started / Progress / Finished events.
C1_ProgressMonotone ==
    [][DownloadEventStep => managerDownloadProgress' >= managerDownloadProgress]_vars

\* C2: managerDownloadProgress is an integer in [0,100] in every reachable
\* state.
C2_ProgressInRange == managerDownloadProgress \in 0..FullPercent

\* The clamp is at work: more bytes were counted than the total in use, the
\* total being the default 1 that a Started event reporting 0 selects.
C2_Witness ==
    /\ startedSeen
    /\ contentLength = DefaultContentLength
    /\ downloaded > contentLength
    /\ lastEvent.event = "Progress"
    /\ managerDownloadProgress = FullPercent

\* C3: in the state right after a Finished event was handled,
\* managerDownloadProgress is exactly 100.
C3_FinishedIsFull ==
    (downloadCall = "pending" /\ lastEvent.event = "Finished")
        => managerDownloadProgress = FullPercent

\* Finished was handled in a run that saw no Started event and counted
\* nothing: before it the progress was 0.
C3_Witness ==
    /\ downloadCall = "pending"
    /\ lastEvent.event = "Finished"
    /\ ~startedSeen
    /\ downloaded = 0
    /\ managerDownloadProgress = FullPercent

\* ------------------------------------------------------- uninstall modal
\* What uninstall_openclaw resolves to (InstallResult).
UninstallResults == {[success |-> TRUE, message |-> "uninstalled", error |-> None],
                     [success |-> FALSE, message |-> "busy", error |-> Some("lock held")]}

\* What the invoke rejects with.
UninstallErrors == {"ipc error"}

\* catch (e) { setUninstallResult({ success: false, message: ..., error: String(e) }) }
FailureResult(err) ==
    [success |-> FALSE, message |-> "An error occurred during uninstallation",
     error |-> Some(err)]

AlwaysSucceeded(result) == TRUE

NeverSucceeded(result) == FALSE

\* if (result.success) { onEnvironmentChange?.(); setTimeout(...) }
Succeeded(result) == result.success

ConfirmButtonRenderedModalClosed == PanelRendered /\ uninstallResult = None

\* {showUninstallConfirm && ... {!uninstallResult ? <Cancel/> <Uninstall/> : <result/>}}
ConfirmButtonRendered ==
    PanelRendered /\ showUninstallConfirm /\ uninstallResult = None

\* <button onClick={handleUninstall} disabled={uninstalling}>
ConfirmButtonEnabled == ConfirmButtonRendered /\ ~uninstalling

\* Danger Zone button: onClick={() => setShowUninstallConfirm(true)}
OpenUninstallModal ==
    /\ PanelRendered
    /\ showUninstallConfirm' = TRUE
    /\ UNCHANGED <<uninstalling, uninstallResult, uninstallCall, closeTimers,
                   envChanges, uninstallCalls>>
    /\ UNCHANGED <<envVars, dashVars, exportVars,
                   importVars, agentVars, store, ipc, loadVars, sliceVars, saveVars, edits,
                   updateVars>>

\* The X button of the modal (always rendered in it) and its Cancel button:
\* onClick={() => setShowUninstallConfirm(false)}
CloseUninstallModal ==
    /\ PanelRendered
    /\ showUninstallConfirm
    /\ showUninstallConfirm' = FALSE
    /\ UNCHANGED <<uninstalling, uninstallResult, uninstallCall, closeTimers,
                   envChanges, uninstallCalls>>
    /\ UNCHANGED <<envVars, dashVars, exportVars,
                   importVars, agentVars, store, ipc, loadVars, sliceVars, saveVars, edits,
                   updateVars>>

\* handleUninstall up to its await.
HandleUninstall ==
    /\ ConfirmButtonEnabled
    /\ uninstallCalls < MaxUninstalls
    /\ uninstalling' = TRUE
    /\ uninstallResult' = None
    /\ uninstallCall' = [state |-> "pending"]
    /\ uninstallCalls' = uninstallCalls + 1
    /\ UNCHANGED <<showUninstallConfirm, closeTimers, envChanges>>
    /\ UNCHANGED <<envVars, dashVars, exportVars,
                   importVars, agentVars, store, ipc, loadVars, sliceVars, saveVars, edits,
                   updateVars>>

\* The backend answers uninstall_openclaw with a result.
BackendUninstallReturns(result) ==
    /\ uninstallCall.state = "pending"
    /\ uninstallCall' = [state |-> "returned", result |-> result]
    /\ UNCHANGED <<showUninstallConfirm, uninstalling, uninstallResult, closeTimers,
                   envChanges, uninstallCalls>>
    /\ UNCHANGED <<envVars, dashVars, exportVars,
                   importVars, agentVars, store, ipc, loadVars, sliceVars, saveVars, edits,
                   updateVars>>

\* The invoke of uninstall_openclaw fails.
BackendUninstallThrows(err) ==
    /\ uninstallCall.state = "pending"
    /\ uninstallCall' = [state |-> "threw", error |-> err]
    /\ UNCHANGED <<showUninstallConfirm, uninstalling, uninstallResult, closeTimers,
                   envChanges, uninstallCalls>>
    /\ UNCHANGED <<envVars, dashVars, exportVars,
                   importVars, agentVars, store, ipc, loadVars, sliceVars, saveVars, edits,
                   updateVars>>

\* handleUninstall resumes in the try block with the result; then finally.
UninstallResumes ==
    /\ uninstallCall.state = "returned"
    /\ uninstallCall' = [state |-> "none"]
    /\ uninstallResult' = Some(uninstallCall.result)
    /\ IF Succeeded(uninstallCall.result)
       THEN /\ envChanges' = IF hasEnvCallback THEN envChanges + 1 ELSE envChanges
            /\ closeTimers' = closeTimers + 1
       ELSE UNCHANGED <<envChanges, closeTimers>>
    /\ uninstalling' = FALSE
    /\ UNCHANGED <<showUninstallConfirm, uninstallCalls>>
    /\ UNCHANGED <<envVars, dashVars, exportVars,
                   importVars, agentVars, store, ipc, loadVars, sliceVars, saveVars, edits,
                   updateVars>>

\* handleUninstall resumes in the catch block; then finally.
UninstallCatches ==
    /\ uninstallCall.state = "threw"
    /\ uninstallCall' = [state |-> "none"]
    /\ uninstallResult' = Some(FailureResult(uninstallCall.error))
    /\ uninstalling' = FALSE
    /\ UNCHANGED <<showUninstallConfirm, closeTimers, envChanges, uninstallCalls>>
    /\ UNCHANGED <<envVars, dashVars, exportVars,
                   importVars, agentVars, store, ipc, loadVars, sliceVars, saveVars, edits,
                   updateVars>>

\* setTimeout(() => setShowUninstallConfirm(false), 2000) fires.
AutoCloseTimer ==
    /\ closeTimers > 0
    /\ closeTimers' = closeTimers - 1
    /\ showUninstallConfirm' = FALSE
    /\ UNCHANGED <<uninstalling, uninstallResult, uninstallCall, envChanges,
                   uninstallCalls>>
    /\ UNCHANGED <<envVars, dashVars, exportVars,
                   importVars, agentVars, store, ipc, loadVars, sliceVars, saveVars, edits,
                   updateVars>>

NextUninstall ==
    \/ Load
    \/ OpenUninstallModal
    \/ CloseUninstallModal
    \/ HandleUninstall
    \/ \E r \in UninstallResults : BackendUninstallReturns(r)
    \/ \E err \in UninstallErrors : BackendUninstallThrows(err)
    \/ UninstallResumes
    \/ UninstallCatches
    \/ AutoCloseTimer

\* The uninstall flow does not read the agent store.
InitUninstall == Init /\ agentsConfig = TwoAgentsConfig /\ service = "running"

SpecUninstall == InitUninstall /\ [][NextUninstall]_vars

\* A timer that was set fires: the browser runs every scheduled callback.
FairSpecUninstall == SpecUninstall /\ WF_vars(AutoCloseTimer)

\* The uninstall call ended in failure and its result is on display in the
\* open modal.
FailureShown ==
    /\ PanelRendered
    /\ showUninstallConfirm
    /\ uninstallCall.state = "none"
    /\ uninstallResult # None
    /\ ~uninstallResult[1].success

\* C4: after a confirmed uninstall failed, the confirm action of the
\* still-open modal is rendered and enabled again, so the user can retry.
C4_RetryAvailable == FailureShown => ConfirmButtonEnabled

\* The step in which handleUninstall takes a failure: a result with
\* success = false, or a thrown error.
UninstallFails ==
    \/ uninstallCall.state = "returned" /\ ~uninstallCall.result.success /\ UninstallResumes
    \/ uninstallCall.state = "threw" /\ UninstallCatches

\* C5: when uninstall_openclaw returns success = false or throws, the modal
\* stays as it is (open if it was open) and no auto-close is scheduled,
\* uninstallResult holds success = false with the backend's message (the
\* generic message when the call threw), uninstalling is false again and
\* onEnvironmentChange is not called.
C5_FailureHandling ==
    [][UninstallFails =>
         /\ showUninstallConfirm' = showUninstallConfirm
         /\ closeTimers' = 0
         /\ uninstallResult' # None
         /\ ~uninstallResult'[1].success
         /\ uninstallResult'[1].message =
              IF uninstallCall.state = "returned"
              THEN uninstallCall.result.message
              ELSE "An error occurred during uninstallation"
         /\ ~uninstalling'
         /\ envChanges' = envChanges]_vars

\* The backend answered "busy" and the modal, still open, shows it.
C5_Witness ==
    /\ FailureShown
    /\ uninstallResult[1].message = "busy"
    /\ ~uninstalling
    /\ closeTimers = 0
    /\ hasEnvCallback /\ envChanges = 0

\* C6: uninstall_openclaw is invoked only from the open modal: the step
\* that issues a call starts and ends with showUninstallConfirm true (the
\* modal was opened by an earlier step), and the Danger Zone button issues
\* no call.
C6_CallOnlyFromModal ==
    [][/\ (uninstallCalls' # uninstallCalls =>
              showUninstallConfirm /\ showUninstallConfirm')
       /\ (OpenUninstallModal => uninstallCalls' = uninstallCalls)]_vars

\* A call was issued.
C6_Witness == uninstallCalls = 1 /\ uninstallCall.state = "pending" /\ showUninstallConfirm

\* The step in which handleUninstall takes a result with success = true.
UninstallSucceeds ==
    uninstallCall.state = "returned" /\ uninstallCall.result.success /\ UninstallResumes

\* C7: when uninstall_openclaw returns success = true, onEnvironmentChange
\* (when given) is called once in that step and in no other step, the
\* auto-close is scheduled, and the modal then closes without user action.
C7_SuccessNotifiesAndCloses ==
    /\ [][UninstallSucceeds =>
            /\ envChanges' = envChanges + (IF hasEnvCallback THEN 1 ELSE 0)
            /\ closeTimers' = closeTimers + 1]_vars
    /\ [][envChanges' # envChanges => UninstallSucceeds]_vars
    /\ (closeTimers > 0 ~> ~showUninstallConfirm)

\* The success was notified once and the timer closed the modal.
C7_Witness ==
    /\ uninstallResult # None
    /\ uninstallResult[1].success
    /\ envChanges = 1
    /\ closeTimers = 0
    /\ ~showUninstallConfirm

\* ------------------------------------------------------------ form edits
\* The texts typed into the number inputs of the port, the threshold and
\* the message limit, and into those of the three subagent limits.
NumberTexts == {"", "0", "9090"}
LimitTexts == {"", "0"}
\* The <option>s picked in the selects.
Timezones == {"Asia/Shanghai"}
TimeFormats == {"", "24h"}
LogLevels == {"debug", "warn"}
\* The value picked in the colour input and the text typed as API key.
Colors == {"#00ff00"}
KeyTexts == {"", "BSA-2"}

\* parseInt(text): None stands for NaN.
ParseInt(text) ==
    CASE text = "" -> None
      [] text = "0" -> Some(0)
      [] text = "9090" -> Some(9090)

\* x || null for a parsed number: NaN and 0 are falsy.
NumberOrNull(n) == IF n = None \/ n = Some(0) THEN None ELSE n

\* parseInt(e.target.value) || 3000
PortOf(text) ==
    IF NumberOrNull(ParseInt(text)) = None THEN DefaultPort ELSE ParseInt(text)[1]

\* e.target.value ? parseInt(e.target.value) : null
ParseIfTyped(text) == IF text = "" THEN None ELSE ParseInt(text)

\* e.target.value || null for a text
TextOrNull(text) == IF text = "" THEN None ELSE Some(text)

\* Every onChange handler runs in the rendered form; the model counts them.
CanEdit == PanelRendered /\ edits + saveId < MaxFormActions

EditFrame ==
    /\ edits' = edits + 1
    /\ UNCHANGED <<envVars, dashVars, exportVars,
                   importVars, agentVars, store, ipc, loadVars, saveVars, uninstallVars, updateVars>>

ToggleCompactionEnabledClearing ==
    /\ CanEdit
    /\ compaction' = [compaction EXCEPT !.enabled = ~compaction.enabled,
                                        !.threshold = None]
    /\ EditFrame
    /\ UNCHANGED <<browser, webConfig, workspace, gateway, subagentDefaults>>

\* onChange={e => setCompaction({ ...compaction, enabled: e.target.checked })}
ToggleCompactionEnabled ==
    /\ CanEdit
    /\ compaction' = [compaction EXCEPT !.enabled = ~compaction.enabled]
    /\ EditFrame
    /\ UNCHANGED <<browser, webConfig, workspace, gateway, subagentDefaults>>

\* {compaction.enabled && <input onChange={... threshold: parseInt(e.target.value) || null}>}
EditThreshold(text) ==
    /\ CanEdit
    /\ compaction.enabled
    /\ compaction' = [compaction EXCEPT !.threshold = NumberOrNull(ParseInt(text))]
    /\ EditFrame
    /\ UNCHANGED <<browser, webConfig, workspace, gateway, subagentDefaults>>

\* onChange={e => setCompaction({ ...compaction, context_pruning: e.target.checked })}
ToggleContextPruning ==
    /\ CanEdit
    /\ compaction' = [compaction EXCEPT !.context_pruning = ~compaction.context_pruning]
    /\ EditFrame
    /\ UNCHANGED <<browser, webConfig, workspace, gateway, subagentDefaults>>

\* {compaction.context_pruning && <input onChange={... max_context_messages: parseInt(...) || null}>}
EditMaxMessages(text) ==
    /\ CanEdit
    /\ compaction.context_pruning
    /\ compaction' = [compaction EXCEPT
                        !.max_context_messages = NumberOrNull(ParseInt(text))]
    /\ EditFrame
    /\ UNCHANGED <<browser, webConfig, workspace, gateway, subagentDefaults>>

\* onChange={e => setWorkspace({ ...workspace, timezone: e.target.value })}
SelectTimezone(tz) ==
    /\ CanEdit
    /\ workspace' = [workspace EXCEPT !.timezone = Some(tz)]
    /\ EditFrame
    /\ UNCHANGED <<browser, webConfig, compaction, gateway, subagentDefaults>>

\* onChange={e => setWorkspace({ ...workspace, time_format: e.target.value || null })}
SelectTimeFormat(tf) ==
    /\ CanEdit
    /\ workspace' = [workspace EXCEPT !.time_format = TextOrNull(tf)]
    /\ EditFrame
    /\ UNCHANGED <<browser, webConfig, compaction, gateway, subagentDefaults>>

\* onChange={e => setGateway({ ...gateway, port: parseInt(e.target.value) || 3000 })}
EditPort(text) ==
    /\ CanEdit
    /\ gateway' = [gateway EXCEPT !.port = PortOf(text)]
    /\ EditFrame
    /\ UNCHANGED <<browser, webConfig, compaction, workspace, subagentDefaults>>

\* onChange={e => setGateway({ ...gateway, log_level: e.target.value })}
SelectLogLevel(level) ==
    /\ CanEdit
    /\ gateway' = [gateway EXCEPT !.log_level = level]
    /\ EditFrame
    /\ UNCHANGED <<browser, webConfig, compaction, workspace, subagentDefaults>>

\* onChange={... max_spawn_depth: e.target.value ? parseInt(e.target.value) : null}
EditMaxSpawnDepth(text) ==
    /\ CanEdit
    /\ subagentDefaults' = [subagentDefaults EXCEPT !.max_spawn_depth = ParseIfTyped(text)]
    /\ EditFrame
    /\ UNCHANGED <<browser, webConfig, compaction, workspace, gateway>>

\* onChange={... max_children_per_agent: e.target.value ? parseInt(e.target.value) : null}
EditMaxChildren(text) ==
    /\ CanEdit
    /\ subagentDefaults' = [subagentDefaults EXCEPT
                              !.max_children_per_agent = ParseIfTyped(text)]
    /\ EditFrame
    /\ UNCHANGED <<browser, webConfig, compaction, workspace, gateway>>

\* onChange={... max_concurrent: e.target.value ? parseInt(e.target.value) : null}
EditMaxConcurrent(text) ==
    /\ CanEdit
    /\ subagentDefaults' = [subagentDefaults EXCEPT !.max_concurrent = ParseIfTyped(text)]
    /\ EditFrame
    /\ UNCHANGED <<browser, webConfig, compaction, workspace, gateway>>

\* onChange={e => setBrowser({ ...browser, enabled: e.target.checked })}
ToggleBrowserEnabled ==
    /\ CanEdit
    /\ browser' = [browser EXCEPT !.enabled = ~browser.enabled]
    /\ EditFrame
    /\ UNCHANGED <<webConfig, compaction, workspace, gateway, subagentDefaults>>

\* {browser.enabled && <input type="color" onChange={... color: e.target.value}>}
EditBrowserColor(color) ==
    /\ CanEdit
    /\ browser.enabled
    /\ browser' = [browser EXCEPT !.color = Some(color)]
    /\ EditFrame
    /\ UNCHANGED <<webConfig, compaction, workspace, gateway, subagentDefaults>>

\* onChange={e => setWebConfig({ ...webConfig, brave_api_key: e.target.value || null })}
EditBraveApiKey(text) ==
    /\ CanEdit
    /\ webConfig' = [webConfig EXCEPT !.brave_api_key = TextOrNull(text)]
    /\ EditFrame
    /\ UNCHANGED <<browser, compaction, workspace, gateway, subagentDefaults>>

Edit ==
    \/ ToggleCompactionEnabled
    \/ \E text \in NumberTexts : EditThreshold(text)
    \/ ToggleContextPruning
    \/ \E text \in NumberTexts : EditMaxMessages(text)
    \/ \E tz \in Timezones : SelectTimezone(tz)
    \/ \E tf \in TimeFormats : SelectTimeFormat(tf)
    \/ \E text \in NumberTexts : EditPort(text)
    \/ \E level \in LogLevels : SelectLogLevel(level)
    \/ \E text \in LimitTexts : EditMaxSpawnDepth(text)
    \/ \E text \in LimitTexts : EditMaxChildren(text)
    \/ \E text \in LimitTexts : EditMaxConcurrent(text)
    \/ ToggleBrowserEnabled
    \/ \E color \in Colors : EditBrowserColor(color)
    \/ \E text \in KeyTexts : EditBraveApiKey(text)

\* ------------------------------------------------------------------ save
SaveArgsNullsDefaulted(s) ==
    CASE s = "browser" -> [enabled |-> browser.enabled, color |-> browser.color]
      [] s = "web" -> [braveApiKey |-> webConfig.brave_api_key]
      [] s = "compaction" ->
            [enabled |-> compaction.enabled,
             threshold |-> compaction.threshold,
             contextPruning |-> compaction.context_pruning,
             maxContextMessages |-> compaction.max_context_messages]
      [] s = "workspace" ->
            [workspace |-> workspace.workspace,
             timezone |-> IF workspace.timezone = None
                          THEN Some("Asia/Shanghai") ELSE workspace.timezone,
             timeFormat |-> workspace.time_format,
             skipBootstrap |-> workspace.skip_bootstrap,
             bootstrapMaxChars |-> workspace.bootstrap_max_chars]
      [] s = "gateway" -> [port |-> gateway.port, logLevel |-> gateway.log_level]
      [] s = "subagent" -> [defaults |-> subagentDefaults]

SaveArgsStalePort(s) ==
    CASE s = "browser" -> [enabled |-> browser.enabled, color |-> browser.color]
      [] s = "web" -> [braveApiKey |-> webConfig.brave_api_key]
      [] s = "compaction" ->
            [enabled |-> compaction.enabled,
             threshold |-> compaction.threshold,
             contextPruning |-> compaction.context_pruning,
             maxContextMessages |-> compaction.max_context_messages]
      [] s = "workspace" ->
            [workspace |-> workspace.workspace,
             timezone |-> workspace.timezone,
             timeFormat |-> workspace.time_format,
             skipBootstrap |-> workspace.skip_bootstrap,
             bootstrapMaxChars |-> workspace.bootstrap_max_chars]
      [] s = "gateway" ->
            [port |-> IF loaded["gateway"] = None
                      THEN DefaultPort ELSE loaded["gateway"][1].port,
             logLevel |-> gateway.log_level]
      [] s = "subagent" -> [defaults |-> subagentDefaults]

\* The argument object of the invoke('save_...') call for slice s.
SaveArgs(s) ==
    CASE s = "browser" -> [enabled |-> browser.enabled, color |-> browser.color]
      [] s = "web" -> [braveApiKey |-> webConfig.brave_api_key]
      [] s = "compaction" ->
            [enabled |-> compaction.enabled,
             threshold |-> compaction.threshold,
             contextPruning |-> compaction.context_pruning,
             maxContextMessages |-> compaction.max_context_messages]
      [] s = "workspace" ->
            [workspace |-> workspace.workspace,
             timezone |-> workspace.timezone,
             timeFormat |-> workspace.time_format,
             skipBootstrap |-> workspace.skip_bootstrap,
             bootstrapMaxChars |-> workspace.bootstrap_max_chars]
      [] s = "gateway" -> [port |-> gateway.port, logLevel |-> gateway.log_level]
      [] s = "subagent" -> [defaults |-> subagentDefaults]

SaveRequest(s, id) == [cmd |-> "save", slice |-> s, args |-> SaveArgs(s), call |-> id]

\* The record the backend stores for a save_... call ("corresponding fields").
BackendApply(s, args) ==
    CASE s = "browser" -> [enabled |-> args.enabled, color |-> args.color]
      [] s = "web" -> [brave_api_key |-> args.braveApiKey]
      [] s = "compaction" ->
            [enabled |-> args.enabled,
             threshold |-> args.threshold,
             context_pruning |-> args.contextPruning,
             max_context_messages |-> args.maxContextMessages]
      [] s = "workspace" ->
            [workspace |-> args.workspace,
             timezone |-> args.timezone,
             time_format |-> args.timeFormat,
             skip_bootstrap |-> args.skipBootstrap,
             bootstrap_max_chars |-> args.bootstrapMaxChars]
      [] s = "gateway" -> [port |-> args.port, log_level |-> args.logLevel]
      [] s = "subagent" -> args.defaults

\* <button onClick={handleSave} disabled={saving || saveSuccess}>
SaveButtonEnabled == PanelRendered /\ ~saving /\ ~saveSuccess

\* handleSave up to its await: the two setters and the six invokes of
\* Promise.all, issued in the order written.
HandleSave ==
    /\ SaveButtonEnabled
    /\ edits + saveId < MaxFormActions
    /\ saving' = TRUE
    /\ saveSuccess' = FALSE
    /\ saveId' = saveId + 1
    /\ ipc' = ipc \o [i \in 1..Len(Slices) |-> SaveRequest(Slices[i], saveId + 1)]
    /\ UNCHANGED <<saveTimers, saveAlert, saveAlerts>>
    /\ UNCHANGED <<envVars, dashVars, exportVars,
                   importVars, agentVars, store, loadVars, sliceVars, edits, uninstallVars,
                   updateVars>>

AwaitedAfterRejection(req) == req.call = saveId

\* The Promise.all of the running handleSave still waits for the request.
Awaited(req) == saving /\ req.call = saveId

\* No other call of the same Promise.all is in flight behind the first.
LastOfBatch(queue) == \A i \in 2..Len(queue) : queue[i].call # queue[1].call

SlicesRolledBack ==
    <<DefaultBrowser, DefaultWebConfig, DefaultCompaction, DefaultWorkspace,
      DefaultGateway, DefaultSubagentDefaults>>

\* The six config slices after the catch and finally blocks of handleSave:
\* neither block calls a slice setter.
SlicesAfterFailedSave == sliceVars

\* A save call resolves: the backend has stored the slice.  When it is the
\* last of the six and none was rejected, handleSave resumes:
\* setSaveSuccess(true), the timer, then finally.
SaveCallResolves ==
    /\ ipc # <<>>
    /\ Head(ipc).cmd = "save"
    /\ store' = [store EXCEPT ![Head(ipc).slice] =
                                BackendApply(Head(ipc).slice, Head(ipc).args)]
    /\ ipc' = Tail(ipc)
    /\ IF Awaited(Head(ipc)) /\ LastOfBatch(ipc)
       THEN /\ saveSuccess' = TRUE
            /\ saveTimers' = saveTimers + 1
            /\ saving' = FALSE
       ELSE UNCHANGED <<saveSuccess, saveTimers, saving>>
    /\ UNCHANGED <<saveId, saveAlert, saveAlerts>>
    /\ UNCHANGED <<envVars, dashVars, exportVars,
                   importVars, agentVars, loadVars, sliceVars, edits, uninstallVars, updateVars>>

\* A save call rejects: the backend stored nothing for it.  While
\* Promise.all is pending it rejects at once and handleSave resumes in the
\* catch block (alert with the error), then finally; the calls behind it
\* stay in flight.  The error names the command that failed.
SaveCallRejects ==
    /\ ipc # <<>>
    /\ Head(ipc).cmd = "save"
    /\ ipc' = Tail(ipc)
    /\ IF Awaited(Head(ipc))
       THEN /\ saveAlert' = Some(Head(ipc).slice)
            /\ saveAlerts' = saveAlerts + 1
            /\ saving' = FALSE
            /\ browser' = SlicesAfterFailedSave[1]
            /\ webConfig' = SlicesAfterFailedSave[2]
            /\ compaction' = SlicesAfterFailedSave[3]
            /\ workspace' = SlicesAfterFailedSave[4]
            /\ gateway' = SlicesAfterFailedSave[5]
            /\ subagentDefaults' = SlicesAfterFailedSave[6]
       ELSE UNCHANGED <<saveAlert, saveAlerts, saving, sliceVars>>
    /\ UNCHANGED <<saveSuccess, saveId, saveTimers>>
    /\ UNCHANGED <<envVars, dashVars, exportVars,
                   importVars, agentVars, store, loadVars, edits, uninstallVars, updateVars>>

\* setTimeout(() => setSaveSuccess(false), 2000) fires.
SaveSuccessTimer ==
    /\ saveTimers > 0
    /\ saveTimers' = saveTimers - 1
    /\ saveSuccess' = FALSE
    /\ UNCHANGED <<saving, saveId, saveAlert, saveAlerts>>
    /\ UNCHANGED <<envVars, dashVars, exportVars,
                   importVars, agentVars, store, ipc, loadVars, sliceVars, edits, uninstallVars,
                   updateVars>>

Next ==
    \/ Load
    \/ Edit
    \/ HandleSave
    \/ SaveCallResolves
    \/ SaveCallRejects
    \/ SaveSuccessTimer

Spec == InitWithCallback /\ [][Next]_vars

\* A timer that was set fires: the browser runs every scheduled callback.
FairSpec == Spec /\ WF_vars(SaveSuccessTimer)

\* The load resolved: Promise.all collected all six slices.
LoadSucceeded == loadPc = "done" /\ \A s \in SliceSet : loaded[s] # None

\* The step in which the Promise.all of handleSave rejects.
SaveFails == ipc # <<>> /\ Head(ipc).cmd = "save" /\ Awaited(Head(ipc)) /\ SaveCallRejects

\* C8: a failed Save leaves the six local config slices as they were,
\* leaves saveSuccess false and returns saving to false.
C8_FailedSaveKeepsEdits ==
    [][SaveFails =>
         /\ browser' = browser
         /\ webConfig' = webConfig
         /\ compaction' = compaction
         /\ workspace' = workspace
         /\ gateway' = gateway
         /\ subagentDefaults' = subagentDefaults
         /\ saveSuccess' = FALSE
         /\ saving' = FALSE]_vars

\* A Save of edited slices failed: the alert was shown and the edit is
\* still in the form, not at the backend.
C8_Witness ==
    /\ LoadSucceeded
    /\ saveAlert = Some("gateway")
    /\ ~saving /\ ~saveSuccess
    /\ gateway.port = 9090
    /\ store["gateway"].port = 8080

\* The values the arguments of a save request carry, field by field, as a
\* config record.
SentValues(req) ==
    CASE req.slice = "browser" ->
            [enabled |-> req.args.enabled, color |-> req.args.color]
      [] req.slice = "web" -> [brave_api_key |-> req.args.braveApiKey]
      [] req.slice = "compaction" ->
            [enabled |-> req.args.enabled,
             threshold |-> req.args.threshold,
             context_pruning |-> req.args.contextPruning,
             max_context_messages |-> req.args.maxContextMessages]
      [] req.slice = "workspace" ->
            [workspace |-> req.args.workspace,
             timezone |-> req.args.timezone,
             time_format |-> req.args.timeFormat,
             skip_bootstrap |-> req.args.skipBootstrap,
             bootstrap_max_chars |-> req.args.bootstrapMaxChars]
      [] req.slice = "gateway" ->
            [port |-> req.args.port, log_level |-> req.args.logLevel]
      [] req.slice = "subagent" -> req.args.defaults

\* The local value of a slice.
LocalValue(s) ==
    CASE s = "browser" -> browser
      [] s = "web" -> webConfig
      [] s = "compaction" -> compaction
      [] s = "workspace" -> workspace
      [] s = "gateway" -> gateway
      [] s = "subagent" -> subagentDefaults

\* The step in which the last of the six calls of the running handleSave
\* resolves, none having been rejected.
SaveCompletes ==
    /\ ipc # <<>> /\ Head(ipc).cmd = "save"
    /\ Awaited(Head(ipc)) /\ LastOfBatch(ipc)
    /\ SaveCallResolves

\* C9: a Save issues the six calls with the local values of the moment of
\* the click; when all six succeed saveSuccess becomes true, and the timer
\* then clears it without user action.
C9_SaveSendsLocalValues ==
    /\ [][saveId' # saveId =>
            /\ Len(ipc') = Len(ipc) + Len(Slices)
            /\ \A i \in 1..Len(Slices) :
                  LET req == ipc'[Len(ipc) + i]
                  IN /\ req.cmd = "save"
                     /\ req.slice = Slices[i]
                     /\ SentValues(req) = LocalValue(Slices[i])]_vars
    /\ [][SaveCompletes => saveSuccess' = TRUE /\ saveTimers' = saveTimers + 1]_vars
    /\ (saveSuccess ~> ~saveSuccess)

\* The load returned port 8080, the user typed 9090, the Save persisted
\* it, and the confirmation has been cleared again.
C9_Witness ==
    /\ LoadSucceeded
    /\ loaded["gateway"][1].port = 8080
    /\ gateway.port = 9090
    /\ store["gateway"].port = 9090
    /\ saveId = 1 /\ ~saving /\ saveAlert = None /\ ipc = <<>>
    /\ ~saveSuccess /\ saveTimers = 0

\* C10: after a successful load and with no edit made, every save call in
\* flight carries exactly the values the load returned for its slice, and
\* the backend's stored configuration is still what the load returned.
C10_UneditedSaveRoundTrips ==
    (LoadSucceeded /\ edits = 0) =>
        /\ \A i \in 1..Len(ipc) :
              ipc[i].cmd = "save" => SentValues(ipc[i]) = loaded[ipc[i].slice][1]
        /\ \A s \in SliceSet : store[s] = loaded[s][1]

\* An unedited Save of a configuration with null optional fields has
\* persisted all six slices.
C10_Witness ==
    /\ LoadSucceeded
    /\ edits = 0
    /\ loaded["workspace"][1].timezone = None
    /\ saveId = 1 /\ ~saving /\ saveSuccess /\ ipc = <<>>

\* The number of calls of handleSave run `id` among the requests of a queue.
CallsOfSave(queue, id) ==
    Cardinality({i \in 1..Len(queue) : queue[i].cmd = "save" /\ queue[i].call = id})

\* A step in which a save call is rejected, awaited or not.
SaveCallIsRejected == ipc # <<>> /\ Head(ipc).cmd = "save" /\ SaveCallRejects

\* C11: a Save is not atomic.  The click issues all six persist calls
\* together; a rejected call changes nothing at the backend and puts no new
\* call in flight (no rollback, no re-send), so what the other calls stored
\* stays stored; alert() is called only in the step that ends the running
\* handleSave, once, with the error of the call rejected in that step (the
\* first of that Save); and saveSuccess is set only in a step that ends the
\* running handleSave without an alert.
C11_SaveNotAtomic ==
    /\ [][saveId' # saveId =>
            /\ CallsOfSave(ipc', saveId') = Len(Slices)
            /\ CallsOfSave(ipc, saveId') = 0]_vars
    /\ [][SaveCallIsRejected => store' = store /\ ipc' = Tail(ipc)]_vars
    /\ [][saveAlerts' # saveAlerts =>
            /\ saving /\ ~saving'
            /\ saveAlerts' = saveAlerts + 1
            /\ saveAlert' = Some(Head(ipc).slice)
            /\ ~saveSuccess']_vars
    /\ [][(saveSuccess' /\ ~saveSuccess) =>
            /\ saving /\ ~saving'
            /\ saveAlerts' = saveAlerts]_vars

\* The port was edited and saved; the first call (browser) was rejected and
\* the alert shown, the gateway call behind it stored the new port: the
\* backend holds a part of the Save and the UI shows no success.
C11_Witness ==
    /\ LoadSucceeded
    /\ saveId = 1 /\ ipc = <<>>
    /\ saveAlerts = 1 /\ saveAlert = Some("browser")
    /\ ~saving /\ ~saveSuccess /\ saveTimers = 0
    /\ loaded["gateway"][1].port = 8080
    /\ gateway.port = 9090
    /\ store["gateway"].port = 9090

\* The load ended in the catch block: a fetch was rejected (or the version
\* lookup was) before all six results were collected.
LoadFailed == loadPc = "done" /\ \E s \in SliceSet : loaded[s] = None

\* The six slices hold their useState() values.
SlicesAreDefaults ==
    /\ browser = DefaultBrowser
    /\ webConfig = DefaultWebConfig
    /\ compaction = DefaultCompaction
    /\ workspace = DefaultWorkspace
    /\ gateway = DefaultGateway
    /\ subagentDefaults = DefaultSubagentDefaults

\* C12: when one of the six fetches of the load rejects, the step that
\* takes the rejection ends the load with loading false and the panel
\* rendered, and the six slices hold their defaults, all of them, also when
\* other fetches had resolved before; they keep them until the user edits.
C12_LoadFailureSwallowed ==
    /\ [][FetchRejects => (~loading' /\ PanelRendered' /\ SlicesAreDefaults')]_vars
    /\ []((LoadFailed /\ edits = 0) => (PanelRendered /\ SlicesAreDefaults))

\* The browser fetch had resolved with a non-default value when the web
\* fetch was rejected: the panel is rendered and shows the default.
C12_Witness ==
    /\ LoadFailed
    /\ loaded["browser"] = Some(ConfigB.browser)
    /\ loaded["web"] = None
    /\ browser = DefaultBrowser /\ browser # ConfigB.browser
    /\ PanelRendered
    /\ edits = 0

\* A fetch of the load is still in flight.
FetchPending == \E i \in 1..Len(ipc) : ipc[i].cmd = "get"

\* C13 as stated: loading stays true until every one of the six fetches
\* has resolved or rejected, so the load is never over while a fetch is
\* still pending.
C13_LoadWaitsForAll == FetchPending => loading

\* C13 as amended: loading stays true until all six fetches have resolved
\* or one of them has rejected: the step that ends the load either leaves
\* no fetch pending or is the rejection of a fetch.
C13_LoadWaitsForAllOrError ==
    [][(loading /\ ~loading') => (~FetchPending' \/ FetchRejects)]_vars

\* The load ended after all six fetches resolved: none is pending.
C13_Witness ==
    /\ LoadSucceeded
    /\ ~loading
    /\ ~FetchPending
    /\ browser = store["browser"] /\ gateway = store["gateway"]
    /\ edits = 0 /\ saveId = 0

\* The steps that put a check() or a downloadAndInstall() call in flight.
CheckStarts == checkCall = "none" /\ checkCall' = "pending"
DownloadStarts == downloadCall = "none" /\ downloadCall' = "pending"

\* C14: the self-update flow makes only the listed transitions.  A check
\* starts only when no check is running, no update is available and none
\* is installed; a download starts only when a check has reported an update
\* and no download is running; managerUpdateDone becomes true only in the
\* step in which the download call resolves, with no error set; and
\* managerUpdateError is set only in the step in which a check or a
\* download fails.
C14_OnlyListedTransitions ==
    /\ [][CheckStarts =>
            (~managerChecking /\ ~managerUpdateAvailable /\ ~managerUpdateDone)]_vars
    /\ [][DownloadStarts =>
            /\ managerUpdateAvailable /\ managerUpdateObj # None
            /\ managerUpdateVersion = Some(managerUpdateObj[1].version)
            /\ ~managerDownloading /\ ~managerChecking]_vars
    /\ [][(managerUpdateDone' /\ ~managerUpdateDone) =>
            /\ downloadCall = "pending" /\ DownloadResolves
            /\ managerUpdateError' = None]_vars
    /\ [][(managerUpdateError' # None /\ managerUpdateError' # managerUpdateError) =>
            \/ checkCall = "pending" /\ \E err \in UpdateErrors : CheckRejects(err)
            \/ downloadCall = "pending" /\ \E err \in UpdateErrors : DownloadRejects(err)]_vars

\* idle, checking, update_available, downloading, done: the update was
\* found, downloaded to its Finished event and installed.
C14_Witness ==
    /\ managerUpdateDone
    /\ managerUpdateAvailable
    /\ managerUpdateVersion = Some("2.0.0")
    /\ managerUpdateError = None
    /\ ~managerDownloading /\ downloadCall = "none"
    /\ lastEvent.event = "Finished"

\* A check or a download has failed and its error is on display.
UpdateFailed ==
    managerUpdateError # None /\ checkCall = "none" /\ downloadCall = "none"

\* C15: a failure of the update flow is terminal for the attempt: while
\* the error of a failed check or download is on display no call is in
\* flight (nothing is retried by itself), the flow can be restarted with a
\* new check, and the download cannot be run again without one.
C15_FailureIsTerminal ==
    UpdateFailed => (CheckButtonEnabled /\ ~DownloadButtonRendered)

\* ---------------------------------------------------------- config import
\* The files the user may pick in the open() dialog.
ImportFiles == {"a.json", "b.json"}

\* What open() resolves to: a path, or null when the user cancels.
PickerResults == {None} \cup {Some(f) : f \in ImportFiles}

\* import_config "overwrites full config from file": the configuration a
\* file holds.
ImportedConfig(path) == IF path = "a.json" THEN ConfigA ELSE ConfigB

RemoveAt(seq, i) == SubSeq(seq, 1, i - 1) \o SubSeq(seq, i + 1, Len(seq))

HandleImportNoConfirm(accepted) ==
    /\ PanelRendered
    /\ importPrompts < MaxImports
    /\ importPrompts' = importPrompts + 1
    /\ pickersOpen' = pickersOpen + 1
    /\ UNCHANGED <<importFlight, importCalls, importAlerts, reloads>>
    /\ UNCHANGED <<envVars, dashVars, exportVars,
                   agentVars, store, ipc, loadVars, sliceVars, saveVars,
                   edits, uninstallVars, updateVars>>

\* handleImport up to its first await: confirm() returns the user's answer;
\* when declined the handler returns, otherwise it opens the file picker.
HandleImport(accepted) ==
    /\ PanelRendered
    /\ importPrompts < MaxImports
    /\ importPrompts' = importPrompts + 1
    /\ pickersOpen' = IF accepted THEN pickersOpen + 1 ELSE pickersOpen
    /\ UNCHANGED <<importFlight, importCalls, importAlerts, reloads>>
    /\ UNCHANGED <<envVars, dashVars, exportVars,
                   agentVars, store, ipc, loadVars, sliceVars, saveVars,
                   edits, uninstallVars, updateVars>>

\* open() resolves: with a path the handler invokes import_config, with
\* null (cancel) it ends.
PickerResolves(path) ==
    /\ pickersOpen > 0
    /\ pickersOpen' = pickersOpen - 1
    /\ IF path # None
       THEN /\ importFlight' = Append(importFlight, [path |-> path[1], page |-> reloads])
            /\ importCalls' = importCalls + 1
       ELSE UNCHANGED <<importFlight, importCalls>>
    /\ UNCHANGED <<importPrompts, importAlerts, reloads>>
    /\ UNCHANGED <<envVars, dashVars, exportVars,
                   agentVars, store, ipc, loadVars, sliceVars, saveVars,
                   edits, uninstallVars, updateVars>>

\* open() rejects: the catch block alerts.
PickerRejects ==
    /\ pickersOpen > 0
    /\ pickersOpen' = pickersOpen - 1
    /\ importAlerts' = importAlerts + 1
    /\ UNCHANGED <<importPrompts, importFlight, importCalls, reloads>>
    /\ UNCHANGED <<envVars, dashVars, exportVars,
                   agentVars, store, ipc, loadVars, sliceVars, saveVars,
                   edits, uninstallVars, updateVars>>

\* window.location.reload(): the page starts over with the useState()
\* values and mounts again; its timers, its open dialogs and the answers to
\* its pending fetches are gone.  The counters of past events stay.
PageReloads ==
    /\ reloads' = reloads + 1
    /\ pickersOpen' = 0
    /\ exportPickers' = 0
    /\ ipc' = SelectSeq(ipc, LAMBDA req : req.cmd # "get")
    /\ loading' = TRUE /\ loadPc' = "mount"
    /\ loaded' = [s \in SliceSet |-> None]
    /\ appVersion' = "..."
    /\ browser' = DefaultBrowser
    /\ webConfig' = DefaultWebConfig
    /\ compaction' = DefaultCompaction
    /\ workspace' = DefaultWorkspace
    /\ gateway' = DefaultGateway
    /\ subagentDefaults' = DefaultSubagentDefaults
    /\ saving' = FALSE /\ saveSuccess' = FALSE /\ saveTimers' = 0
    /\ showUninstallConfirm' = FALSE /\ uninstalling' = FALSE
    /\ uninstallResult' = None /\ uninstallCall' = [state |-> "none"]
    /\ closeTimers' = 0
    /\ managerChecking' = FALSE /\ managerUpdateAvailable' = FALSE
    /\ managerUpdateVersion' = None /\ managerUpdateBody' = None
    /\ managerDownloading' = FALSE /\ managerDownloadProgress' = 0
    /\ managerUpdateDone' = FALSE /\ managerUpdateError' = None
    /\ managerUpdateObj' = None /\ managerCheckDone' = FALSE
    /\ checkCall' = "none" /\ downloadCall' = "none"
    /\ downloaded' = 0 /\ contentLength' = DefaultContentLength
    /\ lastEvent' = NoEvent /\ startedSeen' = FALSE /\ eventCount' = 0
    /\ UNCHANGED <<saveId, saveAlert, saveAlerts, edits, envChanges, uninstallCalls>>

\* The handleImport run that made the call is still on the page.
ImportAwaited(call) == call.page = reloads

\* import_config resolves: the backend has overwritten the configuration;
\* the handler alerts the success and reloads the page.
ImportResolves(i) ==
    /\ i \in 1..Len(importFlight)
    /\ store' = ImportedConfig(importFlight[i].path)
    /\ importFlight' = RemoveAt(importFlight, i)
    /\ IF ImportAwaited(importFlight[i])
       THEN PageReloads
       ELSE UNCHANGED <<reloads, pickersOpen, exportPickers, ipc, loadVars, sliceVars,
                        saveVars, edits, uninstallVars, updateVars>>
    /\ UNCHANGED <<envVars, dashVars, agentVars, importPrompts, importCalls, importAlerts,
                   exportClicks, exportFlight, exportCalls, exportAlerts>>

\* import_config rejects: the catch block alerts.
ImportRejects(i) ==
    /\ i \in 1..Len(importFlight)
    /\ importFlight' = RemoveAt(importFlight, i)
    /\ importAlerts' = IF ImportAwaited(importFlight[i])
                       THEN importAlerts + 1 ELSE importAlerts
    /\ UNCHANGED <<importPrompts, pickersOpen, importCalls, reloads>>
    /\ UNCHANGED <<envVars, dashVars, exportVars,
                   agentVars, store, ipc, loadVars, sliceVars, saveVars,
                   edits, uninstallVars, updateVars>>

NextImport ==
    \/ Load
    \/ \E accepted \in BOOLEAN : HandleImport(accepted)
    \/ \E path \in PickerResults : PickerResolves(path)
    \/ PickerRejects
    \/ \E i \in 1..MaxImports : ImportResolves(i)
    \/ \E i \in 1..MaxImports : ImportRejects(i)

SpecImport == InitWithCallback /\ [][NextImport]_vars

\* C16: import_config is invoked only in the step in which the picker of an
\* accepted prompt returns a path; the page reloads only in the step in
\* which an awaited import_config call resolves; a declined prompt and a
\* cancelled picker make no call and no reload, and a failed import_config
\* makes no reload.
C16_ImportOnlyAfterConfirmAndPick ==
    /\ [][pickersOpen' > pickersOpen => HandleImport(TRUE)]_vars
    /\ [][importCalls' # importCalls =>
            /\ pickersOpen > 0
            /\ importCalls' = importCalls + 1
            /\ \E f \in ImportFiles : PickerResolves(Some(f))]_vars
    /\ [][reloads' # reloads =>
            \E i \in 1..Len(importFlight) :
                ImportAwaited(importFlight[i]) /\ ImportResolves(i)]_vars
    /\ [][HandleImport(FALSE) => pickersOpen' = pickersOpen]_vars
    /\ [][(HandleImport(FALSE) \/ PickerResolves(None)) =>
            /\ importCalls' = importCalls /\ importFlight' = importFlight
            /\ store' = store
            /\ reloads' = reloads]_vars
    /\ [][(\E i \in 1..Len(importFlight) : ImportRejects(i)) =>
            reloads' = reloads]_vars
    /\ [](importCalls + pickersOpen <= importPrompts /\ reloads <= importCalls)

\* Of two prompts one was declined or its picker cancelled; the other led
\* to the import of b.json, the reload, and a load that shows its content.
C16_Witness ==
    /\ importPrompts = 2 /\ importCalls = 1 /\ reloads = 1
    /\ importAlerts = 0 /\ pickersOpen = 0 /\ importFlight = <<>>
    /\ store = ConfigB
    /\ LoadSucceeded
    /\ gateway = ConfigB.gateway

\* ----------------------------------------------------------- Agents panel
settingsVars == <<envVars, dashVars, exportVars, importVars, store, ipc, loadVars, sliceVars, saveVars,
                  edits, uninstallVars, updateVars>>

\* A backend call of the panel: the command, its argument (the fields a
\* command does not take keep their empty values), whether the backend has
\* answered it, the payload of the answer, and for a save the opening of
\* the dialog whose button made the call.
NoArg == [agent |-> EmptyAgentForm, agentId |-> "", binding |-> EmptyBindingForm,
          index |-> 0]
Call(cmd, arg) ==
    [cmd |-> cmd, arg |-> arg, state |-> "sent", data |-> None, session |-> 0]

\* invoke<AgentsConfigResponse>('get_agents_config')
GetCall == Call("get_agents_config", NoArg)

\* save_agent: upsert by id.
UpsertAgent(list, agent) ==
    IF \E i \in 1..Len(list) : list[i].id = agent.id
    THEN [i \in 1..Len(list) |-> IF list[i].id = agent.id THEN agent ELSE list[i]]
    ELSE Append(list, agent)

\* The agent store after the backend has carried out a call.
BackendAfter(c) ==
    CASE c.cmd = "get_agents_config" -> agentsConfig
      [] c.cmd = "save_agent" ->
            [agentsConfig EXCEPT !.agents = UpsertAgent(@, c.arg.agent)]
      [] c.cmd = "delete_agent" ->
            [agentsConfig EXCEPT
               !.agents = SelectSeq(@, LAMBDA a : a.id # c.arg.agentId)]
      [] c.cmd = "save_agent_binding" ->
            [agentsConfig EXCEPT !.bindings = Append(@, c.arg.binding)]
      [] c.cmd = "delete_agent_binding" ->
            [agentsConfig EXCEPT !.bindings = RemoveAt(@, c.arg.index)]

\* The backend can carry out the call: a binding is removed at a position
\* the list has.
BackendAccepts(c) ==
    c.cmd = "delete_agent_binding" => c.arg.index \in 1..Len(agentsConfig.bindings)

\* The backend answers a call: it carries it out, a fetch taking the lists
\* as they are at that moment, or it rejects it and changes nothing.
BackendAnswers(i, ok) ==
    /\ i \in 1..Len(agentCalls)
    /\ agentCalls[i].state = "sent"
    /\ IF ok
       THEN /\ BackendAccepts(agentCalls[i])
            /\ agentsConfig' = BackendAfter(agentCalls[i])
            /\ agentCalls' = [agentCalls EXCEPT
                  ![i].state = "ok",
                  ![i].data = IF agentCalls[i].cmd = "get_agents_config"
                              THEN Some(agentsConfig) ELSE None]
       ELSE /\ agentCalls' = [agentCalls EXCEPT ![i].state = "failed"]
            /\ UNCHANGED agentsConfig
    /\ UNCHANGED <<agentsPc, agentsLoading, agents, bindings, error, showAgentDialog,
                   editingAgent, showBindingDialog, agentsSaving, agentForm,
                   bindingForm, peerType, peerId, agentActions, confirmPrompts,
                   fetchFailed, appliedData, dialogOpens>>
    /\ UNCHANGED settingsVars

\* The response of call i has reached the page.
Answered(i, cmd) ==
    /\ i \in 1..Len(agentCalls)
    /\ agentCalls[i].cmd = cmd
    /\ agentCalls[i].state # "sent"

\* String(e) of a rejected call.
ErrorOf(c) == Some(c.cmd)

\* useEffect(() => { fetchData() }, []): fetchData up to its await.
FetchData ==
    /\ agentsPc = "mount"
    /\ agentsPc' = "mounted"
    /\ agentsLoading' = TRUE
    /\ error' = None
    /\ agentCalls' = Append(agentCalls, GetCall)
    /\ UNCHANGED <<agentsConfig, agents, bindings, showAgentDialog, editingAgent,
                   showBindingDialog, agentsSaving, agentForm, bindingForm, peerType,
                   peerId, agentActions, confirmPrompts,
                   fetchFailed, appliedData, dialogOpens>>
    /\ UNCHANGED settingsVars

FetchDataResumesAgentsOnly(i) ==
    /\ Answered(i, "get_agents_config")
    /\ agentCalls' = RemoveAt(agentCalls, i)
    /\ IF agentCalls[i].state = "ok"
       THEN /\ agents' = agentCalls[i].data[1].agents
            /\ appliedData' = agentCalls[i].data
            /\ UNCHANGED <<bindings, error, fetchFailed>>
       ELSE /\ error' = ErrorOf(agentCalls[i])
            /\ fetchFailed' = TRUE
            /\ UNCHANGED <<agents, bindings, appliedData>>
    /\ agentsLoading' = FALSE
    /\ UNCHANGED <<agentsConfig, agentsPc, showAgentDialog, editingAgent,
                   showBindingDialog, agentsSaving, agentForm, bindingForm, peerType,
                   peerId, agentActions, confirmPrompts, dialogOpens>>
    /\ UNCHANGED settingsVars

\* fetchData resumes after its await: the two setters, or the catch block;
\* then finally.
FetchDataResumes(i) ==
    /\ Answered(i, "get_agents_config")
    /\ agentCalls' = RemoveAt(agentCalls, i)
    /\ IF agentCalls[i].state = "ok"
       THEN /\ agents' = agentCalls[i].data[1].agents
            /\ bindings' = agentCalls[i].data[1].bindings
            /\ appliedData' = agentCalls[i].data
            /\ UNCHANGED <<error, fetchFailed>>
       ELSE /\ error' = ErrorOf(agentCalls[i])
            /\ fetchFailed' = TRUE
            /\ UNCHANGED <<agents, bindings, appliedData>>
    /\ agentsLoading' = FALSE
    /\ UNCHANGED <<agentsConfig, agentsPc, showAgentDialog, editingAgent,
                   showBindingDialog, agentsSaving, agentForm, bindingForm, peerType,
                   peerId, agentActions, confirmPrompts, dialogOpens>>
    /\ UNCHANGED settingsVars

\* if (loading && !agents.length) return <spinner/>
AgentsPanelRendered == ~(agentsLoading /\ Len(agents) = 0)

\* The backdrop of an open dialog (fixed inset-0 z-50) covers the page: the
\* buttons of the page take clicks only while no dialog is shown.
PageClickable ==
    /\ AgentsPanelRendered
    /\ ~showAgentDialog /\ ~showBindingDialog
    /\ agentActions < MaxAgentActions

AgentDialogRendered == AgentsPanelRendered /\ showAgentDialog
BindingDialogRendered == AgentsPanelRendered /\ showBindingDialog

\* The texts typed into the inputs of the agent dialog.
AgentIdTexts == {"", "a", "c"}
WorkspaceTexts == {"", "/w"}
AgentDirTexts == {"agents/x"}
ModelTexts == {"", "m2"}

\* "Add Agent"
OpenAddAgent ==
    /\ PageClickable
    /\ editingAgent' = None
    /\ agentForm' = EmptyAgentForm
    /\ showAgentDialog' = TRUE
    /\ agentActions' = agentActions + 1
    /\ dialogOpens' = dialogOpens + 1
    /\ UNCHANGED <<agentsConfig, agentCalls, agentsPc, agentsLoading, agents,
                   bindings, error, showBindingDialog, agentsSaving, bindingForm,
                   peerType, peerId, confirmPrompts, fetchFailed, appliedData>>
    /\ UNCHANGED settingsVars

\* The pencil button of the k-th agent card.
OpenEditAgent(k) ==
    /\ PageClickable
    /\ k \in 1..Len(agents)
    /\ editingAgent' = Some(agents[k])
    /\ agentForm' = agents[k]
    /\ showAgentDialog' = TRUE
    /\ agentActions' = agentActions + 1
    /\ dialogOpens' = dialogOpens + 1
    /\ UNCHANGED <<agentsConfig, agentCalls, agentsPc, agentsLoading, agents,
                   bindings, error, showBindingDialog, agentsSaving, bindingForm,
                   peerType, peerId, confirmPrompts, fetchFailed, appliedData>>
    /\ UNCHANGED settingsVars

\* The backdrop, the X and the Cancel button: setShowAgentDialog(false)
CloseAgentDialog ==
    /\ AgentDialogRendered
    /\ showAgentDialog' = FALSE
    /\ UNCHANGED <<agentActions, agentsConfig, agentCalls, agentsPc, agentsLoading, agents,
                   bindings, error, editingAgent, showBindingDialog, agentsSaving,
                   agentForm, bindingForm, peerType, peerId, confirmPrompts,
                   fetchFailed, appliedData, dialogOpens>>
    /\ UNCHANGED settingsVars

\* What every onChange handler of the agent dialog leaves alone.
AgentFormFrame ==
    /\ AgentDialogRendered
    /\ agentActions < MaxAgentActions
    /\ agentActions' = agentActions + 1
    /\ UNCHANGED <<agentsConfig, agentCalls, agentsPc, agentsLoading, agents,
                   bindings, error, showAgentDialog, editingAgent, showBindingDialog,
                   agentsSaving, bindingForm, peerType, peerId, confirmPrompts,
                   fetchFailed, appliedData, dialogOpens>>
    /\ UNCHANGED settingsVars

EditAgentIdAlwaysEnabled(text) ==
    /\ agentForm' = [agentForm EXCEPT !.id = text]
    /\ AgentFormFrame

\* <input disabled={!!editingAgent} onChange={e => setAgentForm({ ...agentForm, id: e.target.value })}>
EditAgentId(text) ==
    /\ editingAgent = None
    /\ agentForm' = [agentForm EXCEPT !.id = text]
    /\ AgentFormFrame

\* onChange={e => setAgentForm({ ...agentForm, workspace: e.target.value || null })}
EditAgentWorkspace(text) ==
    /\ agentForm' = [agentForm EXCEPT !.workspace = TextOrNull(text)]
    /\ AgentFormFrame

\* onChange={e => setAgentForm({ ...agentForm, agent_dir: e.target.value || null })}
EditAgentDir(text) ==
    /\ agentForm' = [agentForm EXCEPT !.agent_dir = TextOrNull(text)]
    /\ AgentFormFrame

\* onChange={e => setAgentForm({ ...agentForm, model: e.target.value || null })}
EditAgentModel(text) ==
    /\ agentForm' = [agentForm EXCEPT !.model = TextOrNull(text)]
    /\ AgentFormFrame

\* <input type="checkbox" checked={agentForm.sandbox || false}
\*        onChange={e => setAgentForm({ ...agentForm, sandbox: e.target.checked })}>
ToggleAgentSandbox ==
    /\ agentForm' = [agentForm EXCEPT !.sandbox = Some(~(@ = Some(TRUE)))]
    /\ AgentFormFrame

\* <button onClick={handleSaveAgent} disabled={saving || !agentForm.id}>
SaveAgentButtonEnabled == AgentDialogRendered /\ ~agentsSaving /\ agentForm.id # ""

HandleSaveAgentUnguarded ==
    /\ AgentDialogRendered /\ ~agentsSaving
    /\ agentActions < MaxAgentActions
    /\ agentActions' = agentActions + 1
    /\ agentsSaving' = TRUE
    /\ agentCalls' = Append(agentCalls,
          [Call("save_agent", [NoArg EXCEPT !.agent = agentForm])
              EXCEPT !.session = dialogOpens])
    /\ UNCHANGED <<agentsConfig, agentsPc, agentsLoading, agents, bindings, error,
                   showAgentDialog, editingAgent, showBindingDialog, agentForm,
                   bindingForm, peerType, peerId, confirmPrompts,
                   fetchFailed, appliedData, dialogOpens>>
    /\ UNCHANGED settingsVars

\* handleSaveAgent up to its await: if (!agentForm.id) return;
\* setSaving(true); invoke('save_agent', { agent: agentForm })
HandleSaveAgent ==
    /\ SaveAgentButtonEnabled
    /\ agentActions < MaxAgentActions
    /\ agentActions' = agentActions + 1
    /\ IF agentForm.id = ""
       THEN UNCHANGED <<agentsSaving, agentCalls>>
       ELSE /\ agentsSaving' = TRUE
            /\ agentCalls' = Append(agentCalls,
               [Call("save_agent", [NoArg EXCEPT !.agent = agentForm])
                   EXCEPT !.session = dialogOpens])
    /\ UNCHANGED <<agentsConfig, agentsPc, agentsLoading, agents, bindings, error,
                   showAgentDialog, editingAgent, showBindingDialog, agentForm,
                   bindingForm, peerType, peerId, confirmPrompts,
                   fetchFailed, appliedData, dialogOpens>>
    /\ UNCHANGED settingsVars

\* handleSaveAgent resumes after its await: setShowAgentDialog(false) and
\* fetchData() up to its await, or the catch block; then finally.
SaveAgentResumes(i) ==
    /\ Answered(i, "save_agent")
    /\ IF agentCalls[i].state = "ok"
       THEN /\ showAgentDialog' = FALSE
            /\ agentsLoading' = TRUE
            /\ error' = None
            /\ agentCalls' = Append(RemoveAt(agentCalls, i), GetCall)
       ELSE /\ error' = ErrorOf(agentCalls[i])
            /\ agentCalls' = RemoveAt(agentCalls, i)
            /\ UNCHANGED <<showAgentDialog, agentsLoading>>
    /\ agentsSaving' = FALSE
    /\ UNCHANGED <<agentsConfig, agentsPc, agents, bindings, editingAgent,
                   showBindingDialog, agentForm, bindingForm, peerType, peerId,
                   agentActions, confirmPrompts, fetchFailed, appliedData, dialogOpens>>
    /\ UNCHANGED settingsVars

HandleDeleteAgentNoConfirm(k, confirmed) ==
    /\ PageClickable
    /\ k \in 1..Len(agents)
    /\ agentActions' = agentActions + 1
    /\ confirmPrompts' = confirmPrompts + 1
    /\ agentCalls' = Append(agentCalls,
                            Call("delete_agent", [NoArg EXCEPT !.agentId = agents[k].id]))
    /\ UNCHANGED <<agentsConfig, agentsPc, agentsLoading, agents, bindings, error,
                   showAgentDialog, editingAgent, showBindingDialog, agentsSaving,
                   agentForm, bindingForm, peerType, peerId,
                   fetchFailed, appliedData, dialogOpens>>
    /\ UNCHANGED settingsVars

\* handleDeleteAgent(agent.id) up to its await: the trash button of the
\* k-th agent card; confirm() returns the user's answer.
HandleDeleteAgent(k, confirmed) ==
    /\ PageClickable
    /\ k \in 1..Len(agents)
    /\ agentActions' = agentActions + 1
    /\ confirmPrompts' = confirmPrompts + 1
    /\ agentCalls' =
          IF confirmed
          THEN Append(agentCalls,
                      Call("delete_agent", [NoArg EXCEPT !.agentId = agents[k].id]))
          ELSE agentCalls
    /\ UNCHANGED <<agentsConfig, agentsPc, agentsLoading, agents, bindings, error,
                   showAgentDialog, editingAgent, showBindingDialog, agentsSaving,
                   agentForm, bindingForm, peerType, peerId,
                   fetchFailed, appliedData, dialogOpens>>
    /\ UNCHANGED settingsVars

DeleteAgentResumesPatchingBindings(i) ==
    /\ Answered(i, "delete_agent")
    /\ IF agentCalls[i].state = "ok"
       THEN /\ agentsLoading' = TRUE
            /\ error' = None
            /\ agentCalls' = Append(RemoveAt(agentCalls, i), GetCall)
            /\ bindings' = SelectSeq(bindings,
                                     LAMBDA b : b.agent_id # agentCalls[i].arg.agentId)
       ELSE /\ error' = ErrorOf(agentCalls[i])
            /\ agentCalls' = RemoveAt(agentCalls, i)
            /\ UNCHANGED <<agentsLoading, bindings>>
    /\ UNCHANGED <<agentsConfig, agentsPc, agents, showAgentDialog,
                   editingAgent, showBindingDialog, agentsSaving, agentForm,
                   bindingForm, peerType, peerId, agentActions, confirmPrompts,
                   fetchFailed, appliedData, dialogOpens>>
    /\ UNCHANGED settingsVars

\* handleDeleteAgent resumes after its await: fetchData() up to its await,
\* or the catch block.
DeleteAgentResumes(i) ==
    /\ Answered(i, "delete_agent")
    /\ IF agentCalls[i].state = "ok"
       THEN /\ agentsLoading' = TRUE
            /\ error' = None
            /\ agentCalls' = Append(RemoveAt(agentCalls, i), GetCall)
       ELSE /\ error' = ErrorOf(agentCalls[i])
            /\ agentCalls' = RemoveAt(agentCalls, i)
            /\ UNCHANGED agentsLoading
    /\ UNCHANGED <<agentsConfig, agentsPc, agents, bindings, showAgentDialog,
                   editingAgent, showBindingDialog, agentsSaving, agentForm,
                   bindingForm, peerType, peerId, agentActions, confirmPrompts,
                   fetchFailed, appliedData, dialogOpens>>
    /\ UNCHANGED settingsVars

\* "Add Rule": <button disabled={agents.length === 0}>; the form's agent is
\* agents[0]?.id || ''
OpenAddBinding ==
    /\ PageClickable
    /\ Len(agents) # 0
    /\ bindingForm' = [agent_id |-> agents[1].id, match_rule |-> EmptyMatchRule]
    /\ peerType' = "any"
    /\ peerId' = ""
    /\ showBindingDialog' = TRUE
    /\ agentActions' = agentActions + 1
    /\ dialogOpens' = dialogOpens + 1
    /\ UNCHANGED <<agentsConfig, agentCalls, agentsPc, agentsLoading, agents,
                   bindings, error, showAgentDialog, editingAgent, agentsSaving,
                   agentForm, confirmPrompts, fetchFailed, appliedData>>
    /\ UNCHANGED settingsVars

\* The backdrop, the X and the Cancel button: setShowBindingDialog(false)
CloseBindingDialog ==
    /\ BindingDialogRendered
    /\ showBindingDialog' = FALSE
    /\ UNCHANGED <<agentActions, agentsConfig, agentCalls, agentsPc, agentsLoading, agents,
                   bindings, error, showAgentDialog, editingAgent, agentsSaving,
                   agentForm, bindingForm, peerType, peerId, confirmPrompts,
                   fetchFailed, appliedData, dialogOpens>>
    /\ UNCHANGED settingsVars

\* <select onChange={e => setBindingForm({ ...bindingForm, agent_id: e.target.value })}>
\*   {agents.map(a => <option value={a.id}>)}
SelectBindingAgent(k) ==
    /\ BindingDialogRendered
    /\ agentActions < MaxAgentActions
    /\ k \in 1..Len(agents)
    /\ bindingForm' = [bindingForm EXCEPT !.agent_id = agents[k].id]
    /\ agentActions' = agentActions + 1
    /\ UNCHANGED <<agentsConfig, agentCalls, agentsPc, agentsLoading, agents,
                   bindings, error, showAgentDialog, editingAgent, showBindingDialog,
                   agentsSaving, agentForm, peerType, peerId, confirmPrompts,
                   fetchFailed, appliedData, dialogOpens>>
    /\ UNCHANGED settingsVars

\* The texts typed into the inputs of the binding dialog.
ChannelTexts == {"", "telegram"}
AccountTexts == {"", "me@x"}
PeerIdTexts == {"", "u1"}
PeerTypes == {"any", "user", "group"}

\* MatchRule.peer: a bare string (the legacy user id) or the object
\* { kind: 'group', id }; the two shapes are told apart by typeof.
UserPeer(val) == [typeof |-> "string", kind |-> "", id |-> val]
GroupPeer(val) == [typeof |-> "object", kind |-> "group", id |-> val]

\* What every handler of the binding dialog's match criteria leaves alone.
BindingFormFrame ==
    /\ BindingDialogRendered
    /\ UNCHANGED <<agentsConfig, agentCalls, agentsPc, agentsLoading, agents,
                   bindings, error, showAgentDialog, editingAgent, showBindingDialog,
                   agentsSaving, agentForm, agentActions, confirmPrompts,
                   fetchFailed, appliedData, dialogOpens>>
    /\ UNCHANGED settingsVars

\* onChange={e => setBindingForm({ ...bindingForm,
\*     match_rule: { ...bindingForm.match_rule, channel: e.target.value || null } })}
EditBindingChannel(text) ==
    /\ bindingForm' = [bindingForm EXCEPT !.match_rule.channel = TextOrNull(text)]
    /\ UNCHANGED <<peerType, peerId>>
    /\ BindingFormFrame

\* onChange={e => setBindingForm({ ...bindingForm,
\*     match_rule: { ...bindingForm.match_rule, account_id: e.target.value || null } })}
EditBindingAccount(text) ==
    /\ bindingForm' = [bindingForm EXCEPT !.match_rule.account_id = TextOrNull(text)]
    /\ UNCHANGED <<peerType, peerId>>
    /\ BindingFormFrame

SelectPeerTypeKeepingPeer(type) ==
    /\ peerType' = type
    /\ UNCHANGED <<bindingForm, peerId>>
    /\ BindingFormFrame

\* The buttons Any, User ID and Group ID.  Any: setPeerType('any') and
\* peer: null; the other two: setPeerType only.
SelectPeerType(type) ==
    /\ peerType' = type
    /\ bindingForm' = IF type = "any"
                      THEN [bindingForm EXCEPT !.match_rule.peer = None]
                      ELSE bindingForm
    /\ UNCHANGED peerId
    /\ BindingFormFrame

\* {peerType !== 'any' && <input value={peerId} onChange=...>}: setPeerId(val)
\* and peer: val || null for 'user', val ? { kind: 'group', id: val } : null
\* otherwise.
EditPeerId(val) ==
    /\ peerType # "any"
    /\ peerId' = val
    /\ bindingForm' =
          [bindingForm EXCEPT !.match_rule.peer =
              IF val = "" THEN None
              ELSE IF peerType = "user" THEN Some(UserPeer(val))
              ELSE Some(GroupPeer(val))]
    /\ UNCHANGED peerType
    /\ BindingFormFrame

\* <button onClick={handleSaveBinding} disabled={saving || !bindingForm.agent_id}>
SaveBindingButtonEnabled ==
    BindingDialogRendered /\ ~agentsSaving /\ bindingForm.agent_id # ""

\* handleSaveBinding up to its await: if (!bindingForm.agent_id) return;
\* setSaving(true); invoke('save_agent_binding', { binding: bindingForm })
HandleSaveBinding ==
    /\ SaveBindingButtonEnabled
    /\ agentActions < MaxAgentActions
    /\ agentActions' = agentActions + 1
    /\ IF bindingForm.agent_id = ""
       THEN UNCHANGED <<agentsSaving, agentCalls>>
       ELSE /\ agentsSaving' = TRUE
            /\ agentCalls' = Append(agentCalls,
                  [Call("save_agent_binding", [NoArg EXCEPT !.binding = bindingForm])
                      EXCEPT !.session = dialogOpens])
    /\ UNCHANGED <<agentsConfig, agentsPc, agentsLoading, agents, bindings, error,
                   showAgentDialog, editingAgent, showBindingDialog, agentForm,
                   bindingForm, peerType, peerId, confirmPrompts,
                   fetchFailed, appliedData, dialogOpens>>
    /\ UNCHANGED settingsVars

\* handleSaveBinding resumes after its await: setShowBindingDialog(false)
\* and fetchData() up to its await, or the catch block; then finally.
SaveBindingResumes(i) ==
    /\ Answered(i, "save_agent_binding")
    /\ IF agentCalls[i].state = "ok"
       THEN /\ showBindingDialog' = FALSE
            /\ agentsLoading' = TRUE
            /\ error' = None
            /\ agentCalls' = Append(RemoveAt(agentCalls, i), GetCall)
       ELSE /\ error' = ErrorOf(agentCalls[i])
            /\ agentCalls' = RemoveAt(agentCalls, i)
            /\ UNCHANGED <<showBindingDialog, agentsLoading>>
    /\ agentsSaving' = FALSE
    /\ UNCHANGED <<agentsConfig, agentsPc, agents, bindings, showAgentDialog,
                   editingAgent, agentForm, bindingForm, peerType, peerId,
                   agentActions, confirmPrompts, fetchFailed, appliedData, dialogOpens>>
    /\ UNCHANGED settingsVars

\* handleDeleteBinding(idx) up to its await: the trash button of the k-th
\* table row (idx = k - 1); confirm() returns the user's answer.
HandleDeleteBinding(k, confirmed) ==
    /\ PageClickable
    /\ k \in 1..Len(bindings)
    /\ agentActions' = agentActions + 1
    /\ confirmPrompts' = confirmPrompts + 1
    /\ agentCalls' =
          IF confirmed
          THEN Append(agentCalls,
                      Call("delete_agent_binding", [NoArg EXCEPT !.index = k]))
          ELSE agentCalls
    /\ UNCHANGED <<agentsConfig, agentsPc, agentsLoading, agents, bindings, error,
                   showAgentDialog, editingAgent, showBindingDialog, agentsSaving,
                   agentForm, bindingForm, peerType, peerId,
                   fetchFailed, appliedData, dialogOpens>>
    /\ UNCHANGED settingsVars

\* handleDeleteBinding resumes after its await: fetchData() up to its
\* await, or the catch block.
DeleteBindingResumes(i) ==
    /\ Answered(i, "delete_agent_binding")
    /\ IF agentCalls[i].state = "ok"
       THEN /\ agentsLoading' = TRUE
            /\ error' = None
            /\ agentCalls' = Append(RemoveAt(agentCalls, i), GetCall)
       ELSE /\ error' = ErrorOf(agentCalls[i])
            /\ agentCalls' = RemoveAt(agentCalls, i)
            /\ UNCHANGED agentsLoading
    /\ UNCHANGED <<agentsConfig, agentsPc, agents, bindings, showAgentDialog,
                   editingAgent, showBindingDialog, agentsSaving, agentForm,
                   bindingForm, peerType, peerId, agentActions, confirmPrompts,
                   fetchFailed, appliedData, dialogOpens>>
    /\ UNCHANGED settingsVars

\* The X of the error toast: onClick={() => setError(null)}
DismissError ==
    /\ PageClickable
    /\ error # None
    /\ error' = None
    /\ agentActions' = agentActions + 1
    /\ UNCHANGED <<agentsConfig, agentCalls, agentsPc, agentsLoading, agents,
                   bindings, showAgentDialog, editingAgent, showBindingDialog,
                   agentsSaving, agentForm, bindingForm, peerType, peerId,
                   confirmPrompts, fetchFailed, appliedData, dialogOpens>>
    /\ UNCHANGED settingsVars

\* The most calls the panel has in flight: the fetch of the mount, and per
\* user action one call or the re-fetch that follows it.
CallSlots == 1..(MaxAgentActions + 1)

\* The most rows a list of the panel shows.
ListSlots == 1..(MaxAgentActions + 2)

NextAgents ==
    \/ FetchData
    \/ \E i \in CallSlots, ok \in BOOLEAN : BackendAnswers(i, ok)
    \/ \E i \in CallSlots : FetchDataResumes(i)
    \/ OpenAddAgent
    \/ \E k \in ListSlots : OpenEditAgent(k)
    \/ CloseAgentDialog
    \/ \E text \in AgentIdTexts : EditAgentId(text)
    \/ \E text \in WorkspaceTexts : EditAgentWorkspace(text)
    \/ \E text \in AgentDirTexts : EditAgentDir(text)
    \/ \E text \in ModelTexts : EditAgentModel(text)
    \/ ToggleAgentSandbox
    \/ HandleSaveAgent
    \/ \E i \in CallSlots : SaveAgentResumes(i)
    \/ \E k \in ListSlots, confirmed \in BOOLEAN : HandleDeleteAgent(k, confirmed)
    \/ \E i \in CallSlots : DeleteAgentResumes(i)
    \/ OpenAddBinding
    \/ CloseBindingDialog
    \/ \E k \in ListSlots : SelectBindingAgent(k)
    \/ HandleSaveBinding
    \/ \E i \in CallSlots : SaveBindingResumes(i)
    \/ \E k \in ListSlots, confirmed \in BOOLEAN : HandleDeleteBinding(k, confirmed)
    \/ \E i \in CallSlots : DeleteBindingResumes(i)
    \/ DismissError

\* The Agents panel does not read the Settings panel's backend state: its
\* specification takes it as given.
InitAgents ==
    Init /\ tauri = TRUE /\ hasEnvCallback = TRUE /\ store = ConfigA /\ service = "running"

SpecAgents == InitAgents /\ [][NextAgents]_vars

\* The step puts a new call of the command in flight (a user action: the
\* queue grows by the call).
Issued(cmd) ==
    /\ Len(agentCalls') = Len(agentCalls) + 1
    /\ agentCalls'[Len(agentCalls')].cmd = cmd
    /\ agentCalls'[Len(agentCalls')].state = "sent"

\* C17: save_agent is never in flight with an empty id and
\* save_agent_binding never with an empty agent_id; each is issued only in
\* a step that starts with the required field of its form non-empty and
\* carries the form as it is, and while the required field of the shown
\* form is empty a step issues neither call nor sets the saving flag.
C17_NoSaveWithEmptyId ==
    /\ [](\A i \in 1..Len(agentCalls) :
            /\ agentCalls[i].cmd = "save_agent" => agentCalls[i].arg.agent.id # ""
            /\ agentCalls[i].cmd = "save_agent_binding" =>
                  agentCalls[i].arg.binding.agent_id # "")
    /\ [][Issued("save_agent") =>
            /\ agentForm.id # ""
            /\ agentCalls'[Len(agentCalls')].arg.agent = agentForm]_vars
    /\ [][Issued("save_agent_binding") =>
            /\ bindingForm.agent_id # ""
            /\ agentCalls'[Len(agentCalls')].arg.binding = bindingForm]_vars
    /\ [][(showAgentDialog /\ ~showBindingDialog /\ agentForm.id = "") =>
            /\ ~Issued("save_agent")
            /\ (agentsSaving' => agentsSaving)]_vars

\* The Add dialog opened with an empty id, the user typed "c" and clicked
\* Save: the call is in flight with that id.
C17_Witness ==
    /\ agentsSaving /\ showAgentDialog /\ editingAgent = None
    /\ \E i \in 1..Len(agentCalls) :
          /\ agentCalls[i].cmd = "save_agent"
          /\ agentCalls[i].state = "sent"
          /\ agentCalls[i].arg.agent.id = "c"

\* A delete prompt was declined in this step.
DeleteDeclined ==
    \/ \E k \in 1..Len(agents) : HandleDeleteAgent(k, FALSE)
    \/ \E k \in 1..Len(bindings) : HandleDeleteBinding(k, FALSE)

\* C18: delete_agent and delete_agent_binding are issued only in the step
\* in which the confirm() prompt of that delete returned true, with the id
\* or the row the prompt was about; a declined prompt issues no call,
\* starts no re-fetch and changes no state of the panel or the backend.
C18_DeleteOnlyAfterConfirm ==
    /\ [][Issued("delete_agent") =>
            /\ confirmPrompts' = confirmPrompts + 1
            /\ \E k \in 1..Len(agents) :
                  /\ HandleDeleteAgent(k, TRUE)
                  /\ agentCalls'[Len(agentCalls')].arg.agentId = agents[k].id]_vars
    /\ [][Issued("delete_agent_binding") =>
            /\ confirmPrompts' = confirmPrompts + 1
            /\ \E k \in 1..Len(bindings) :
                  /\ HandleDeleteBinding(k, TRUE)
                  /\ agentCalls'[Len(agentCalls')].arg.index = k]_vars
    /\ [][DeleteDeclined =>
            /\ confirmPrompts' = confirmPrompts + 1
            /\ UNCHANGED <<agentsConfig, agentCalls, agentsLoading, agents, bindings,
                           error, showAgentDialog, editingAgent, showBindingDialog,
                           agentsSaving, agentForm, bindingForm, peerType, peerId>>]_vars

\* Two prompts were shown: one was declined, the other confirmed, and only
\* the confirmed delete of agent "b" is in flight.
C18_Witness ==
    /\ confirmPrompts = 2
    /\ Len(agentCalls) = 1
    /\ agentCalls[1].cmd = "delete_agent"
    /\ agentCalls[1].arg.agentId = "b"
    /\ agentsConfig = TwoAgentsConfig
    /\ agents = TwoAgentsConfig.agents

\* The step in which handleDeleteAgent resumes after a successful call.
DeleteAgentSucceeds ==
    \E i \in 1..Len(agentCalls) :
        /\ agentCalls[i].cmd = "delete_agent"
        /\ agentCalls[i].state = "ok"
        /\ DeleteAgentResumes(i)

\* C19: the local agents and bindings lists change only in the step in
\* which a get_agents_config response is applied, and then to the lists of
\* that response; the step in which a successful delete_agent resumes
\* leaves both lists as they are and starts the re-fetch.
C19_ListsChangeOnlyOnFetch ==
    /\ [][(agents' # agents \/ bindings' # bindings) =>
            \E i \in 1..Len(agentCalls) :
                /\ FetchDataResumes(i)
                /\ agentCalls[i].state = "ok"
                /\ agents' = agentCalls[i].data[1].agents
                /\ bindings' = agentCalls[i].data[1].bindings]_vars
    /\ [][DeleteAgentSucceeds =>
            /\ agents' = agents /\ bindings' = bindings
            /\ agentCalls'[Len(agentCalls')] = GetCall]_vars

\* Agent "a" was deleted at the backend and handleDeleteAgent has resumed:
\* the re-fetch is in flight, and the local lists still show the agent and
\* its routing rule.
C19_Witness ==
    /\ \A k \in 1..Len(agentsConfig.agents) : agentsConfig.agents[k].id # "a"
    /\ Len(agentCalls) = 1
    /\ agentCalls[1].cmd = "get_agents_config"
    /\ confirmPrompts = 1 /\ agentActions = 1
    /\ agentsLoading
    /\ \E k \in 1..Len(agents) : agents[k].id = "a"
    /\ \E k \in 1..Len(bindings) : bindings[k].agent_id = "a"

\* C20: once the panel has mounted and every call it made has been
\* answered and its response handled, no fetch having failed, the local
\* agents and bindings lists equal the backend's lists, whatever the order
\* in which the responses of overlapping re-fetches arrived.
C20_ListsMatchBackend ==
    (agentsPc = "mounted" /\ Len(agentCalls) = 0 /\ ~fetchFailed) =>
        (agents = agentsConfig.agents /\ bindings = agentsConfig.bindings)

\* C21: in every reachable state the local agents list and the local
\* bindings list are the two lists of one get_agents_config response, the
\* one applied last, or both are the initial empty lists while no response
\* has been applied; overlapping fetches and failed fetches included.
C21_ListsFromOneResponse ==
    IF appliedData = None
    THEN agents = <<>> /\ bindings = <<>>
    ELSE agents = appliedData[1].agents /\ bindings = appliedData[1].bindings

\* A response was applied, a later re-fetch was rejected and yet another
\* one is in flight while the backend has moved on from the lists shown.
C21_Witness ==
    /\ fetchFailed
    /\ appliedData # None
    /\ Len(agents) > 0 /\ Len(bindings) > 0
    /\ appliedData[1] # agentsConfig
    /\ \E i \in 1..Len(agentCalls) :
          agentCalls[i].cmd = "get_agents_config" /\ agentCalls[i].state = "sent"

\* The routing-rule dialog with its match criteria, without the agent
\* dialog and the deletes.
NextBinding ==
    \/ FetchData
    \/ \E i \in CallSlots, ok \in BOOLEAN : BackendAnswers(i, ok)
    \/ \E i \in CallSlots : FetchDataResumes(i)
    \/ OpenAddBinding
    \/ CloseBindingDialog
    \/ \E k \in ListSlots : SelectBindingAgent(k)
    \/ \E text \in ChannelTexts : EditBindingChannel(text)
    \/ \E text \in AccountTexts : EditBindingAccount(text)
    \/ \E type \in PeerTypes : SelectPeerType(type)
    \/ \E val \in PeerIdTexts : EditPeerId(val)
    \/ HandleSaveBinding
    \/ \E i \in CallSlots : SaveBindingResumes(i)

InitBinding == InitAgents /\ agentsConfig = TwoAgentsConfig

SpecBinding == InitBinding /\ [][NextBinding]_vars

\* C22: whenever the binding form's peer type is 'any' the form's peer is
\* null: when the dialog opens and after any sequence of peer-type
\* switches and edits of the match criteria.
C22_AnyPeerIsNull ==
    peerType = "any" => bindingForm.match_rule.peer = None

\* The user had typed a user id, which set the peer, and switched back to
\* Any: the text is kept, the peer is null.
C22_Witness ==
    /\ showBindingDialog
    /\ peerType = "any"
    /\ peerId = "u1"
    /\ bindingForm.match_rule.peer = None
    /\ bindingForm.match_rule.channel = Some("telegram")

\* The peer a match rule holds for a peer type and a typed id: null for
\* 'any' and for an empty id.
PeerOfType(type, val) ==
    CASE type = "any" \/ val = "" -> None
      [] type = "user" -> Some(UserPeer(val))
      [] type = "group" -> Some(GroupPeer(val))

\* C23: a step that switches the peer type to 'user' or to 'group' while
\* the peerId text is non-empty leaves the form's peer the bare string
\* peerId, respectively { kind: 'group', id: peerId }, and a
\* save_agent_binding call is issued with a peer of the shape of the peer
\* type selected at that moment (null, or for 'user' a bare string, for
\* 'group' an object of kind 'group').
C23_PeerHasShapeOfType ==
    /\ [][(peerType' # peerType /\ peerType' # "any" /\ peerId # "") =>
            bindingForm'.match_rule.peer = PeerOfType(peerType', peerId)]_vars
    /\ [][Issued("save_agent_binding") =>
            \E val \in PeerIdTexts :
               agentCalls'[Len(agentCalls')].arg.binding.match_rule.peer =
                  PeerOfType(peerType, val)]_vars

\* C24: a save_agent_binding call is issued with an agent_id that is the
\* id of an agent of the local agents list at that moment, also when a
\* re-fetch response has changed the list while the dialog was open.
C24_BindingAgentIsListed ==
    [][Issued("save_agent_binding") =>
         \E k \in 1..Len(agents) :
            agents[k].id = agentCalls'[Len(agentCalls')].arg.binding.agent_id]_vars

\* C25: while the agent dialog is open in edit mode the form's id is the
\* id of the agent being edited, whatever fields were edited, and a
\* save_agent call issued in edit mode carries that id.
C25_EditKeepsId ==
    /\ []((showAgentDialog /\ editingAgent # None) =>
            agentForm.id = editingAgent[1].id)
    /\ [][(Issued("save_agent") /\ editingAgent # None) =>
            agentCalls'[Len(agentCalls')].arg.agent.id = editingAgent[1].id]_vars

\* Agent "b" was opened for editing, its model changed, and Save clicked:
\* the call in flight carries the id "b" and the new model.
C25_Witness ==
    /\ showAgentDialog /\ editingAgent # None
    /\ \E i \in 1..Len(agentCalls) :
          /\ agentCalls[i].cmd = "save_agent"
          /\ agentCalls[i].arg.agent.id = "b"
          /\ agentCalls[i].arg.agent.model = Some("m2")
          /\ editingAgent[1].model = Some("m1")

\* C26: an edit that flips compaction.enabled, in either direction, leaves
\* threshold, context_pruning and max_context_messages as they are, and a
\* Save sends the threshold the form holds, whether its field is shown or
\* hidden.
C26_ToggleKeepsThreshold ==
    /\ [][(edits' = edits + 1 /\ compaction'.enabled # compaction.enabled) =>
            /\ compaction'.threshold = compaction.threshold
            /\ compaction'.context_pruning = compaction.context_pruning
            /\ compaction'.max_context_messages = compaction.max_context_messages]_vars
    /\ [][saveId' = saveId + 1 =>
            \E i \in 1..Len(ipc') :
               /\ ipc'[i].cmd = "save" /\ ipc'[i].slice = "compaction"
               /\ ipc'[i].call = saveId'
               /\ ipc'[i].args.enabled = compaction.enabled
               /\ ipc'[i].args.threshold = compaction.threshold]_vars

\* The threshold 8000 was loaded, compaction was switched off, which hides
\* the field, and Save was clicked: the call carries the threshold.
C26_Witness ==
    /\ edits = 1
    /\ ~compaction.enabled
    /\ compaction.threshold = Some(8000)
    /\ \E i \in 1..Len(ipc) :
          /\ ipc[i].cmd = "save" /\ ipc[i].slice = "compaction"
          /\ ipc[i].args.enabled = FALSE
          /\ ipc[i].args.threshold = Some(8000)

\* C29: in every reachable state at most one of managerChecking,
\* managerDownloading and managerUpdateDone is true, and managerCheckDone
\* ("up to date") is never true together with managerUpdateAvailable.
C29_UpdateFlagsExclusive ==
    /\ ~(managerChecking /\ managerDownloading)
    /\ ~(managerChecking /\ managerUpdateDone)
    /\ ~(managerDownloading /\ managerUpdateDone)
    /\ ~(managerCheckDone /\ managerUpdateAvailable)

\* A check found an update and its download has completed: done is the
\* only flag of the three that is set.
C29_Witness ==
    /\ managerUpdateDone
    /\ managerUpdateAvailable
    /\ ~managerDownloading /\ ~managerChecking /\ ~managerCheckDone
    /\ eventCount > 0

\* C30: a successful save_agent or save_agent_binding call closes only the
\* dialog it was started from: the step in which its handler resumes and
\* an open dialog closes finds open the dialog that was opened last before
\* the call, no dialog having been opened since.
C30_LateSaveClosesOwnDialog ==
    /\ [][\A i \in 1..Len(agentCalls) :
            (SaveAgentResumes(i) /\ showAgentDialog /\ ~showAgentDialog') =>
                agentCalls[i].session = dialogOpens]_vars
    /\ [][\A i \in 1..Len(agentCalls) :
            (SaveBindingResumes(i) /\ showBindingDialog /\ ~showBindingDialog') =>
                agentCalls[i].session = dialogOpens]_vars

\* --------------------------------------------------------------- dashboard
nonDashVars == <<envVars, exportVars, importVars, agentVars, store, ipc, loadVars,
                 sliceVars, saveVars, edits, uninstallVars, updateVars>>

\* The quick actions: api.startService(), api.stopService()
ServiceCommands == {"startService", "stopService"}

\* A call of the dashboard: the command and who made it: the fetchStatus of
\* the mount, of the interval, or of a quick action's handler.
DashCall(cmd, origin) == [cmd |-> cmd, origin |-> origin]

\* fetchStatus up to its await: outside Tauri it ends the loading state and
\* returns, otherwise it calls getServiceStatus.  The setters of a
\* component that has unmounted change nothing.
FetchStatus(origin) ==
    IF tauri
    THEN /\ dashCalls' = Append(dashCalls, DashCall("getServiceStatus", origin))
         /\ UNCHANGED dashLoading
    ELSE /\ dashLoading' = IF dashPc = "unmounted" THEN dashLoading ELSE FALSE
         /\ UNCHANGED dashCalls

DashMountNoTauriCheck ==
    /\ dashPc = "mount"
    /\ dashPc' = "mounted"
    /\ FetchStatus("mount")
    /\ statusInterval' = TRUE
    /\ UNCHANGED <<status, actionLoading, ticks, dashActions, service>>
    /\ UNCHANGED nonDashVars

\* useEffect(() => { fetchStatus(); if (!isTauri()) return;
\*                   const statusInterval = setInterval(fetchStatus, 3000); ... }, [])
DashMount ==
    /\ dashPc = "mount"
    /\ dashPc' = "mounted"
    /\ FetchStatus("mount")
    /\ statusInterval' = tauri
    /\ UNCHANGED <<status, actionLoading, ticks, dashActions, service>>
    /\ UNCHANGED nonDashVars

\* The interval fires: fetchStatus()
IntervalTick ==
    /\ statusInterval
    /\ ticks < MaxTicks
    /\ ticks' = ticks + 1
    /\ FetchStatus("interval")
    /\ UNCHANGED <<dashPc, statusInterval, status, actionLoading, dashActions, service>>
    /\ UNCHANGED nonDashVars

DashUnmountKeepsInterval ==
    /\ dashPc = "mounted"
    /\ dashPc' = "unmounted"
    /\ UNCHANGED <<statusInterval, dashCalls, status, dashLoading, actionLoading, ticks,
                   dashActions, service>>
    /\ UNCHANGED nonDashVars

\* The cleanup of the effect: clearInterval(statusInterval)
DashUnmount ==
    /\ dashPc = "mounted"
    /\ dashPc' = "unmounted"
    /\ statusInterval' = FALSE
    /\ UNCHANGED <<dashCalls, status, dashLoading, actionLoading, ticks, dashActions,
                   service>>
    /\ UNCHANGED nonDashVars

\* getServiceStatus resolves with the service's state: setStatus(result),
\* finally setLoading(false); a quick action's handler that awaited the
\* fetchStatus then runs its own finally, setActionLoading(false).
StatusResolves(i) ==
    /\ i \in 1..Len(dashCalls)
    /\ dashCalls[i].cmd = "getServiceStatus"
    /\ dashCalls' = RemoveAt(dashCalls, i)
    /\ IF dashPc = "unmounted"
       THEN UNCHANGED <<status, dashLoading, actionLoading>>
       ELSE /\ status' = Some([running |-> service = "running"])
            /\ dashLoading' = FALSE
            /\ actionLoading' = IF dashCalls[i].origin = "action"
                                THEN FALSE ELSE actionLoading
    /\ UNCHANGED <<dashPc, statusInterval, ticks, dashActions, service>>
    /\ UNCHANGED nonDashVars

\* getServiceStatus rejects: the empty catch, finally setLoading(false).
StatusRejects(i) ==
    /\ i \in 1..Len(dashCalls)
    /\ dashCalls[i].cmd = "getServiceStatus"
    /\ dashCalls' = RemoveAt(dashCalls, i)
    /\ IF dashPc = "unmounted"
       THEN UNCHANGED <<dashLoading, actionLoading>>
       ELSE /\ dashLoading' = FALSE
            /\ actionLoading' = IF dashCalls[i].origin = "action"
                                THEN FALSE ELSE actionLoading
    /\ UNCHANGED <<dashPc, statusInterval, status, ticks, dashActions, service>>
    /\ UNCHANGED nonDashVars

\* handleStart, handleStop up to the first await: if (!isTauri()) return;
\* setActionLoading(true); api.startService() or api.stopService()
HandleServiceAction(cmd) ==
    /\ dashPc = "mounted"
    /\ dashActions < MaxDashActions
    /\ dashActions' = dashActions + 1
    /\ IF tauri
       THEN /\ actionLoading' = TRUE
            /\ dashCalls' = Append(dashCalls, DashCall(cmd, "action"))
       ELSE UNCHANGED <<actionLoading, dashCalls>>
    /\ UNCHANGED <<dashPc, statusInterval, status, dashLoading, ticks, service>>
    /\ UNCHANGED nonDashVars

\* The service call resolves, the backend having started or stopped the
\* service: the handler goes on to await fetchStatus().
ServiceActionResolves(i) ==
    /\ i \in 1..Len(dashCalls)
    /\ dashCalls[i].cmd \in ServiceCommands
    /\ service' = IF dashCalls[i].cmd = "startService" THEN "running" ELSE "stopped"
    /\ dashCalls' = Append(RemoveAt(dashCalls, i), DashCall("getServiceStatus", "action"))
    /\ UNCHANGED <<dashPc, statusInterval, status, dashLoading, actionLoading, ticks,
                   dashActions>>
    /\ UNCHANGED nonDashVars

\* The service call rejects: catch logs, finally setActionLoading(false).
ServiceActionRejects(i) ==
    /\ i \in 1..Len(dashCalls)
    /\ dashCalls[i].cmd \in ServiceCommands
    /\ dashCalls' = RemoveAt(dashCalls, i)
    /\ actionLoading' = IF dashPc = "unmounted" THEN actionLoading ELSE FALSE
    /\ UNCHANGED <<dashPc, statusInterval, status, dashLoading, ticks, dashActions,
                   service>>
    /\ UNCHANGED nonDashVars

\* The most calls the dashboard has in flight: the mount's, one per tick
\* and one per quick action.
DashSlots == 1..(1 + MaxTicks + MaxDashActions)

NextDashboard ==
    \/ DashMount
    \/ IntervalTick
    \/ DashUnmount
    \/ \E i \in DashSlots : StatusResolves(i)
    \/ \E i \in DashSlots : StatusRejects(i)
    \/ \E cmd \in ServiceCommands : HandleServiceAction(cmd)
    \/ \E i \in DashSlots : ServiceActionResolves(i)
    \/ \E i \in DashSlots : ServiceActionRejects(i)

\* The dashboard reads neither the configuration nor the agent store.
InitDashboard ==
    Init /\ hasEnvCallback = TRUE /\ store = ConfigA /\ agentsConfig = TwoAgentsConfig

SpecDashboard == InitDashboard /\ [][NextDashboard]_vars

\* A getServiceStatus request of the interval is put in flight in this step.
IntervalRequests ==
    /\ Len(dashCalls') = Len(dashCalls) + 1
    /\ dashCalls'[Len(dashCalls')] = DashCall("getServiceStatus", "interval")

\* C28: the interval is set only while the dashboard is mounted in the
\* Tauri host; once the component has unmounted the interval fires no more
\* and puts no further getServiceStatus request in flight, and outside
\* Tauri neither the interval nor any request exists.
C28_PollStopsOnUnmount ==
    /\ [](statusInterval => (dashPc = "mounted" /\ tauri))
    /\ [](~tauri => (~statusInterval /\ dashCalls = <<>> /\ ticks = 0))
    /\ [][dashPc = "unmounted" => (ticks' = ticks /\ ~IntervalRequests)]_vars
    /\ [][IntervalRequests => (statusInterval /\ dashPc = "mounted" /\ ticks' = ticks + 1)]_vars

\* The interval has fired while the dashboard was mounted, the component
\* has unmounted with a request of the interval still in flight, and the
\* timer is cleared.
C28_Witness ==
    /\ tauri
    /\ dashPc = "unmounted"
    /\ ~statusInterval
    /\ ticks > 0 /\ ticks < MaxTicks
    /\ \E i \in 1..Len(dashCalls) : dashCalls[i].origin = "interval"

\* ---------------------------------------------------------- config export
nonExportVars == <<envVars, dashVars, importVars, agentVars, store, ipc, loadVars,
                   sliceVars, saveVars, edits, uninstallVars, updateVars>>

\* What save() resolves to: the chosen path, or null when the user cancels.
ExportPickerResults == {None, Some("openclaw-config.json")}

\* handleExport up to its first await: it opens the save dialog; there is
\* no confirm() before it.
HandleExport ==
    /\ PanelRendered
    /\ exportClicks < MaxExports
    /\ exportClicks' = exportClicks + 1
    /\ exportPickers' = exportPickers + 1
    /\ UNCHANGED <<exportFlight, exportCalls, exportAlerts>>
    /\ UNCHANGED nonExportVars

\* save() resolves: with a path the handler invokes export_config, with
\* null (cancel) it ends.
ExportPickerResolves(path) ==
    /\ exportPickers > 0
    /\ exportPickers' = exportPickers - 1
    /\ IF path # None
       THEN /\ exportFlight' = Append(exportFlight, [path |-> path[1], page |-> reloads])
            /\ exportCalls' = exportCalls + 1
       ELSE UNCHANGED <<exportFlight, exportCalls>>
    /\ UNCHANGED <<exportClicks, exportAlerts>>
    /\ UNCHANGED nonExportVars

\* save() rejects: the catch block alerts the failure.
ExportPickerRejects ==
    /\ exportPickers > 0
    /\ exportPickers' = exportPickers - 1
    /\ exportAlerts' = exportAlerts + 1
    /\ UNCHANGED <<exportClicks, exportFlight, exportCalls>>
    /\ UNCHANGED nonExportVars

\* export_config resolves: the handler alerts the success and ends.
ExportResolves(i) ==
    /\ i \in 1..Len(exportFlight)
    /\ exportFlight' = RemoveAt(exportFlight, i)
    /\ UNCHANGED <<exportClicks, exportPickers, exportCalls, exportAlerts>>
    /\ UNCHANGED nonExportVars

ExportRejectsAndRetries(i) ==
    /\ i \in 1..Len(exportFlight)
    /\ exportFlight' = exportFlight
    /\ exportCalls' = exportCalls + 1
    /\ exportAlerts' = IF ImportAwaited(exportFlight[i])
                       THEN exportAlerts + 1 ELSE exportAlerts
    /\ UNCHANGED <<exportClicks, exportPickers>>
    /\ UNCHANGED nonExportVars

\* export_config rejects: the catch block alerts the failure; the call is
\* not made again.
ExportRejects(i) ==
    /\ i \in 1..Len(exportFlight)
    /\ exportFlight' = RemoveAt(exportFlight, i)
    /\ exportAlerts' = IF ImportAwaited(exportFlight[i])
                       THEN exportAlerts + 1 ELSE exportAlerts
    /\ UNCHANGED <<exportClicks, exportPickers, exportCalls>>
    /\ UNCHANGED nonExportVars

\* ------------------------------------------ every handler that calls out
\* The user works on one flow of the Settings panel per mount, or on the
\* Agents panel: the flows write disjoint state (the reload of an import
\* apart), so a flow is started only while the others are as the mount
\* left them.
SaveUntouched == saveId = 0
UpdateUntouched ==
    /\ checkCall = "none" /\ downloadCall = "none"
    /\ ~managerChecking /\ ~managerUpdateAvailable /\ ~managerCheckDone
    /\ ~managerUpdateDone /\ managerUpdateError = None
UninstallUntouched == ~showUninstallConfirm /\ uninstallCalls = 0
ImportUntouched == importPrompts = 0
ExportUntouched == exportClicks = 0
SettingsUnmounted == loadPc = "mount"
AgentsUnmounted == agentsPc = "mount"

NextHandlers ==
    \/ AgentsUnmounted /\ LoadConfig
    \/ FetchResolves
    \/ FetchRejects
    \/ FetchSettlesUnobserved
    \/ VersionResolves
    \/ VersionRejects
    \/ UpdateUntouched /\ UninstallUntouched /\ ImportUntouched /\ ExportUntouched
          /\ HandleSave
    \/ SaveCallResolves
    \/ SaveCallRejects
    \/ SaveSuccessTimer
    \/ SaveUntouched /\ UninstallUntouched /\ ImportUntouched /\ ExportUntouched
          /\ CheckManagerUpdate
    \/ \E u \in {None} \cup {Some(x) : x \in Updates} : CheckResolves(u)
    \/ \E err \in UpdateErrors : CheckRejects(err)
    \/ DownloadManagerUpdate
    \/ DownloadEventStep
    \/ DownloadResolves
    \/ \E err \in UpdateErrors : DownloadRejects(err)
    \/ SaveUntouched /\ UpdateUntouched /\ ImportUntouched /\ ExportUntouched
          /\ OpenUninstallModal
    \/ HandleUninstall
    \/ \E r \in UninstallResults : BackendUninstallReturns(r)
    \/ \E err \in UninstallErrors : BackendUninstallThrows(err)
    \/ UninstallResumes
    \/ UninstallCatches
    \/ AutoCloseTimer
    \/ SaveUntouched /\ UpdateUntouched /\ UninstallUntouched /\ ExportUntouched
          /\ \E accepted \in BOOLEAN : HandleImport(accepted)
    \/ \E path \in PickerResults : PickerResolves(path)
    \/ PickerRejects
    \/ \E i \in 1..MaxImports : ImportResolves(i)
    \/ \E i \in 1..MaxImports : ImportRejects(i)
    \/ SaveUntouched /\ UpdateUntouched /\ UninstallUntouched /\ ImportUntouched
          /\ HandleExport
    \/ \E path \in ExportPickerResults : ExportPickerResolves(path)
    \/ ExportPickerRejects
    \/ \E i \in 1..MaxExports : ExportResolves(i)
    \/ \E i \in 1..MaxExports : ExportRejects(i)
    \/ SettingsUnmounted /\ ImportUntouched /\ FetchData
    \/ \E i \in CallSlots, ok \in BOOLEAN : BackendAnswers(i, ok)
    \/ \E i \in CallSlots : FetchDataResumes(i)
    \/ \E k \in ListSlots : OpenEditAgent(k)
    \/ HandleSaveAgent
    \/ \E i \in CallSlots : SaveAgentResumes(i)
    \/ \E k \in ListSlots, confirmed \in BOOLEAN : HandleDeleteAgent(k, confirmed)
    \/ \E i \in CallSlots : DeleteAgentResumes(i)
    \/ OpenAddBinding
    \/ HandleSaveBinding
    \/ \E i \in CallSlots : SaveBindingResumes(i)
    \/ \E k \in ListSlots, confirmed \in BOOLEAN : HandleDeleteBinding(k, confirmed)
    \/ \E i \in CallSlots : DeleteBindingResumes(i)

\* Both panels before their mount, in the Tauri host.
InitHandlers == InitAgents /\ agentsConfig = TwoAgentsConfig

SpecHandlers == InitHandlers /\ [][NextHandlers]_vars

\* The save_... requests in flight.
SaveRequestsIn(queue) == SelectSeq(queue, LAMBDA req : req.cmd = "save")

\* The calls of the Agents panel that change the backend and are in flight.
ChangingCallsIn(calls) ==
    SelectSeq(calls, LAMBDA call : call.cmd # "get_agents_config" /\ call.state = "sent")

\* C27: nothing is retried by itself.  A backend call of Save, check,
\* download, uninstall, import, export or of an agent or binding save or
\* delete is put in flight only in the step of the user's action (for
\* import and export, in the step its file dialog returns a path), once
\* per action; the step that handles a failed call puts no call in flight,
\* so a failed call is made again only by a new action.  The one call a
\* handler makes by itself is the get_agents_config of fetchData after a
\* call that changed the agents has succeeded.
C27_NothingRetried ==
    /\ [][Len(SaveRequestsIn(ipc')) > Len(SaveRequestsIn(ipc)) =>
            /\ SaveButtonEnabled
            /\ saveId' = saveId + 1
            /\ SaveRequestsIn(ipc') = SaveRequestsIn(ipc) \o
                  [i \in 1..Len(Slices) |-> SaveRequest(Slices[i], saveId')]]_vars
    /\ [][saveAlerts' # saveAlerts => Len(ipc') < Len(ipc)]_vars
    /\ [][(checkCall' = "pending" /\ checkCall # "pending") => CheckButtonEnabled]_vars
    /\ [][(downloadCall' = "pending" /\ downloadCall # "pending") =>
            DownloadButtonRendered]_vars
    /\ [][(managerUpdateError' # managerUpdateError /\ managerUpdateError' # None) =>
            (checkCall' = "none" /\ downloadCall' = "none")]_vars
    /\ [][(uninstallCalls' # uninstallCalls \/
             (uninstallCall'.state = "pending" /\ uninstallCall.state # "pending")) =>
            /\ ConfirmButtonEnabled
            /\ uninstallCalls' = uninstallCalls + 1]_vars
    /\ [][uninstallCall.state = "threw" => uninstallCall'.state # "pending"]_vars
    /\ [](importCalls <= importPrompts /\ Len(importFlight) <= importCalls)
    /\ [][(importCalls' # importCalls \/ Len(importFlight') > Len(importFlight)) =>
            /\ pickersOpen > 0 /\ pickersOpen' = pickersOpen - 1
            /\ importCalls' = importCalls + 1
            /\ Len(importFlight') = Len(importFlight) + 1]_vars
    /\ [](exportCalls <= exportClicks /\ Len(exportFlight) <= exportCalls)
    /\ [][(exportCalls' # exportCalls \/ Len(exportFlight') > Len(exportFlight)) =>
            /\ exportPickers > 0 /\ exportPickers' = exportPickers - 1
            /\ exportCalls' = exportCalls + 1
            /\ Len(exportFlight') = Len(exportFlight) + 1]_vars
    /\ [][Len(ChangingCallsIn(agentCalls')) > Len(ChangingCallsIn(agentCalls)) =>
            /\ agentActions' = agentActions + 1
            /\ Len(agentCalls') = Len(agentCalls) + 1
            /\ SubSeq(agentCalls', 1, Len(agentCalls)) = agentCalls]_vars
    /\ [][(Len(agentCalls') >= Len(agentCalls) /\ agentCalls' # agentCalls
             /\ agentActions' = agentActions /\ agentsPc' = agentsPc) =>
            \/ /\ Len(agentCalls') = Len(agentCalls)
               /\ \A j \in 1..Len(agentCalls) :
                     /\ agentCalls'[j].cmd = agentCalls[j].cmd
                     /\ agentCalls'[j].arg = agentCalls[j].arg
            \/ \E i \in 1..Len(agentCalls) :
                  /\ agentCalls[i].state = "ok"
                  /\ agentCalls[i].cmd # "get_agents_config"
                  /\ agentCalls' = Append(RemoveAt(agentCalls, i), GetCall)]_vars

\* An export_config call was made for the one click on Export, it failed
\* and was alerted, and no call is in flight.
C27_Witness ==
    /\ exportClicks = 1 /\ exportCalls = 1
    /\ exportPickers = 0 /\ exportFlight = <<>>
    /\ exportAlerts = 1

====
